---- MODULE Spec2Model ----
(***************************************************************************)
(* AIMacro -> AILang transpiler (src/AIMacro_Parser.py): the lexer         *)
(* AIMacroLexer, the recursive-descent parser/emitter AIMacroParser, the   *)
(* FunctionMapper and the driver compile_aimacro, as one sequential state  *)
(* machine.  One run is one call compile_aimacro(source).                  *)
(*                                                                         *)
(* Text is modelled by TLA+ strings, built with \o exactly where the code  *)
(* builds it with +, f-strings or join.  The source is a sequence of       *)
(* one-character strings.  Python's None and '' (both falsy, never told    *)
(* apart by the code modelled here) are both the empty string.             *)
(***************************************************************************)
EXTENDS Integers, Sequences, FiniteSets, TLC

\* Longest generated source, in characters (the scenario sources are longer).
MaxSrcLen == 3
\* How far past the end of its input a cursor is followed exactly.  A cursor
\* at or past the end reads the same thing at every position (_current
\* returns '' or a synthesized EOF token), so it is held at end + MaxOverrun.
MaxOverrun == 2

\* The longest Python source convert_source is called on, in lines, apart
\* from the inputs of run_tests.
MaxPyLines == 3

\* The deepest indentation of those lines, in spaces.
MaxPyIndent == 2

\* The most files a project has.
MaxFiles == 3

\* The most dependencies between the files of a project.
MaxDeps == 3

VARIABLES
    source,      \* compile_aimacro's argument, a sequence of characters
    output_file, \* compile_aimacro's argument: whether an output file is named
    py_source,   \* convert_source's argument, a sequence of characters
    lexer,       \* the AIMacroLexer object: pos, line, column, tokens
    local,       \* locals of the running _tokenize_* method
    parser,      \* the AIMacroParser object: tokens, pos, output
    stack,       \* the active block-parsing methods, innermost last
    pc,          \* where the call is
    error,       \* the SyntaxError raised, if any
    ailang_code, \* parser.parse()'s return value
    final_code,  \* compile_aimacro's return value
    file,        \* the file output_file names: whether it exists, its content
    conv,        \* locals of PythonToAIMacroConverter.convert_source
    graph,       \* _topological_sort's argument: the files in the order of
                 \* the dictionary, and the dependencies of each
    project      \* the PythonProjectConverter object and the locals of its
                 \* running methods

\* The arguments of the call: no step changes them.
callArgs == <<source, output_file, py_source, graph>>

vars ==
    <<callArgs, lexer, local, parser, stack, pc, error, ailang_code,
      final_code,
      file, conv, project>>

----------------------------------------------------------------------------
\* Character classes and tables

Digits == {"0", "1", "2", "3", "4", "5", "6", "7", "8", "9"}

Letters ==
    {"a", "b", "c", "d", "e", "f", "g", "h", "i", "j", "k", "l", "m",
     "n", "o", "p", "q", "r", "s", "t", "u", "v", "w", "x", "y", "z",
     "A", "B", "C", "D", "E", "F", "G", "H", "I", "J", "K", "L", "M",
     "N", "O", "P", "Q", "R", "S", "T", "U", "V", "W", "X", "Y", "Z"}

\* c.isdigit(), c.isalpha(), c.isalnum() for the characters of the sources;
\* all three are False for ''.
IsDigit(c) == c \in Digits
IsAlpha(c) == c \in Letters
IsAlnum(c) == c \in Letters \cup Digits

\* c in 'abcdefABCDEF': a substring test, so it is True for '' as well.
InHexLetters(c) ==
    c \in {"", "a", "b", "c", "d", "e", "f", "A", "B", "C", "D", "E", "F"}

KEYWORDS ==
    [w \in {"def", "func", "end", "return", "if", "elif", "else", "for",
            "while", "in", "break", "continue", "pass", "import", "from",
            "as", "True", "False", "None", "and", "or", "not", "is",
            "lambda", "class", "try", "except", "finally", "with",
            "ailang", "asm"} |->
        CASE w = "def" -> "DEF"
          [] w = "func" -> "FUNC"
          [] w = "end" -> "END"
          [] w = "return" -> "RETURN"
          [] w = "if" -> "IF"
          [] w = "elif" -> "ELIF"
          [] w = "else" -> "ELSE"
          [] w = "for" -> "FOR"
          [] w = "while" -> "WHILE"
          [] w = "in" -> "IN"
          [] w = "break" -> "BREAK"
          [] w = "continue" -> "CONTINUE"
          [] w = "pass" -> "PASS"
          [] w = "import" -> "IMPORT"
          [] w = "from" -> "FROM"
          [] w = "as" -> "AS"
          [] w = "True" -> "TRUE"
          [] w = "False" -> "FALSE"
          [] w = "None" -> "NONE"
          [] w = "and" -> "AND"
          [] w = "or" -> "OR"
          [] w = "not" -> "NOT"
          [] w = "is" -> "IS"
          [] w = "lambda" -> "LAMBDA"
          [] w = "class" -> "CLASS"
          [] w = "try" -> "TRY"
          [] w = "except" -> "EXCEPT"
          [] w = "finally" -> "FINALLY"
          [] w = "with" -> "WITH"
          [] w = "ailang" -> "AILANG"
          [] w = "asm" -> "ASM"]

\* The two-character operators of _tokenize_operator, by first and second
\* character.
TwoCharTokens(a, b) ==
    CASE a = "=" /\ b = "=" -> "EQ"
      [] a = "!" /\ b = "=" -> "NE"
      [] a = "<" /\ b = "=" -> "LE"
      [] a = ">" /\ b = "=" -> "GE"
      [] a = "+" /\ b = "=" -> "PLUSEQ"
      [] a = "-" /\ b = "=" -> "MINUSEQ"
      [] a = "*" /\ b = "*" -> "POWER"
      [] a = "*" /\ b = "=" -> "MULTEQ"
      [] a = "/" /\ b = "=" -> "DIVEQ"
      [] a = "-" /\ b = ">" -> "ARROW"
      [] OTHER -> "NONE_"

single_char_tokens ==
    [c \in {"+", "-", "*", "/", "%", "=", "<", ">", "(", ")", "[", "]",
            "{", "}", ",", ".", ":", ";", "\n"} |->
        CASE c = "+" -> "PLUS"
          [] c = "-" -> "MINUS"
          [] c = "*" -> "MULTIPLY"
          [] c = "/" -> "DIVIDE"
          [] c = "%" -> "MODULO"
          [] c = "=" -> "ASSIGN"
          [] c = "<" -> "LT"
          [] c = ">" -> "GT"
          [] c = "(" -> "LPAREN"
          [] c = ")" -> "RPAREN"
          [] c = "[" -> "LBRACKET"
          [] c = "]" -> "RBRACKET"
          [] c = "{" -> "LBRACE"
          [] c = "}" -> "RBRACE"
          [] c = "," -> "COMMA"
          [] c = "." -> "DOT"
          [] c = ":" -> "COLON"
          [] c = ";" -> "SEMICOLON"
          [] c = "\n" -> "NEWLINE"]

Token(type, value, line, column) ==
    [type |-> type, value |-> value, line |-> line, column |-> column]

NoError == [kind |-> "none", line |-> 0, column |-> 0, msg |-> ""]

NoLocal ==
    [value |-> "", start_col |-> 0, quote |-> "", is_fstring |-> FALSE,
     body |-> FALSE]

----------------------------------------------------------------------------
\* AIMacroLexer

\* source[p], or '' at and past the end (_current, _peek).
CharAt(p) == IF p < Len(source) THEN source[p + 1] ELSE ""

LexCurrent == CharAt(lexer.pos)

LexPeek == CharAt(lexer.pos + 1)

\* The lexer after one _advance().
LexAdvance(lx) ==
    LET char == CharAt(lx.pos) IN
    [lx EXCEPT
        !.pos = IF @ < Len(source) + MaxOverrun THEN @ + 1 ELSE @,
        !.line = IF char = "\n" THEN @ + 1 ELSE @,
        !.column = IF char = "\n" THEN 1
                   ELSE IF @ < Len(source) + 1 + MaxOverrun THEN @ + 1 ELSE @]

\* self.tokens.append(Token(type, value, self.line, col))
LexAppend(lx, type, value, col) ==
    [lx EXCEPT !.tokens = Append(@, Token(type, value, lx.line, col))]

\* _error of the lexer: a SyntaxError at the lexer's current line and column.
LexError(msg) ==
    /\ error' = [kind |-> "lexer", line |-> lexer.line,
                 column |-> lexer.column, msg |-> msg]
    /\ pc' = "raised"
    /\ UNCHANGED <<callArgs, project, file, conv, lexer, local, parser, stack,
                   ailang_code, final_code>>

\* The end of tokenize: the EOF token is appended and the list returned.
LexReturn ==
    /\ lexer' = LexAppend(lexer, "EOF", "", lexer.column)
    /\ pc' = "tokenized"
    /\ UNCHANGED <<callArgs, project, file, conv, local, parser, stack, error,
                   ailang_code, final_code>>

\* One token is finished: it is appended and the main loop continues.
LexEmit(lx, type, value) ==
    /\ lexer' = LexAppend(lx, type, value, local.start_col)
    /\ local' = NoLocal
    /\ pc' = "tokenize"
    /\ UNCHANGED <<callArgs, project, file, conv, parser, stack, error,
                   ailang_code, final_code>>

\* tokenize: the test of the main loop.
Tokenize ==
    /\ pc = "tokenize"
    /\ \/ /\ lexer.pos < Len(source)
          /\ pc' = "skip_whitespace"
          /\ UNCHANGED <<callArgs, project, file, conv, lexer, local, parser, stack, error,
                         ailang_code, final_code>>
       \/ /\ ~(lexer.pos < Len(source))
          /\ LexReturn

\* _skip_whitespace: the loop test, then its body.
SkipWhitespace ==
    /\ pc = "skip_whitespace"
    /\ \/ /\ ~local.body
          /\ LexCurrent \in {" ", "\t"}
          /\ local' = [local EXCEPT !.body = TRUE]
          /\ UNCHANGED <<callArgs, project, file, conv, lexer, parser, stack, pc, error,
                         ailang_code, final_code>>
       \/ /\ ~local.body
          /\ LexCurrent \notin {" ", "\t"}
          /\ pc' = "dispatch"
          /\ UNCHANGED <<callArgs, project, file, conv, lexer, local, parser, stack, error,
                         ailang_code, final_code>>
       \/ /\ local.body
          /\ lexer' = LexAdvance(lexer)
          /\ local' = [local EXCEPT !.body = FALSE]
          /\ UNCHANGED <<callArgs, project, file, conv, parser, stack, pc, error,
                         ailang_code, final_code>>

IsStringStart ==
    \/ LexCurrent \in {"\"", "'"}
    \/ LexCurrent = "f" /\ LexPeek \in {"\"", "'"}

IsNumberStart ==
    \/ IsDigit(LexCurrent)
    \/ LexCurrent = "." /\ IsDigit(LexPeek)

IsIdentifierStart == IsAlpha(LexCurrent) \/ LexCurrent = "_"

\* tokenize: only whitespace was left.
TokenizeBreak ==
    /\ pc = "dispatch"
    /\ lexer.pos >= Len(source)
    /\ LexReturn

\* tokenize: a comment starts.
TokenizeComment ==
    /\ pc = "dispatch"
    /\ lexer.pos < Len(source)
    /\ LexCurrent = "#"
    /\ pc' = "skip_comment"
    /\ UNCHANGED <<callArgs, project, file, conv, lexer, local, parser, stack, error,
                   ailang_code, final_code>>

\* _skip_comment: the loop test, then its body.
SkipComment ==
    /\ pc = "skip_comment"
    /\ \/ /\ ~local.body
          /\ LexCurrent # "\n" /\ lexer.pos < Len(source)
          /\ local' = [local EXCEPT !.body = TRUE]
          /\ UNCHANGED <<callArgs, project, file, conv, lexer, parser, stack, pc, error,
                         ailang_code, final_code>>
       \/ /\ ~local.body
          /\ ~(LexCurrent # "\n" /\ lexer.pos < Len(source))
          /\ pc' = "tokenize"
          /\ UNCHANGED <<callArgs, project, file, conv, lexer, local, parser, stack, error,
                         ailang_code, final_code>>
       \/ /\ local.body
          /\ lexer' = LexAdvance(lexer)
          /\ local' = [local EXCEPT !.body = FALSE]
          /\ UNCHANGED <<callArgs, project, file, conv, parser, stack, pc, error,
                         ailang_code, final_code>>

\* _tokenize_string up to its loop: the optional f and the opening quote.
TokenizeString ==
    /\ pc = "dispatch"
    /\ lexer.pos < Len(source)
    /\ LexCurrent # "#"
    /\ IsStringStart
    /\ LET is_f == LexCurrent = "f"
           lx1 == IF is_f THEN LexAdvance(lexer) ELSE lexer
       IN /\ lexer' = LexAdvance(lx1)
          /\ local' = [value |-> "", start_col |-> lexer.column,
                       quote |-> CharAt(lx1.pos), is_fstring |-> is_f,
                       body |-> FALSE]
    /\ pc' = "string"
    /\ UNCHANGED <<callArgs, project, file, conv, parser, stack, error,
                   ailang_code, final_code>>

\* The lexer and the value after one pass through the body of the string
\* loop, before its end-of-input check.
StringBody(lx, value, quote) ==
    IF CharAt(lx.pos) = "\\"
    THEN LET lx1 == LexAdvance(lx) IN
         [lx |-> LexAdvance(lx1), value |-> value \o CharAt(lx1.pos)]
    ELSE [lx |-> LexAdvance(lx), value |-> value \o CharAt(lx.pos)]

\* _tokenize_string: the loop test, its body, and the rest after the loop.
StringLoop ==
    /\ pc = "string"
    /\ \/ /\ ~local.body
          /\ LexCurrent # local.quote
          /\ local' = [local EXCEPT !.body = TRUE]
          /\ UNCHANGED <<callArgs, project, file, conv, lexer, parser, stack, pc, error,
                         ailang_code, final_code>>
       \/ /\ ~local.body
          /\ LexCurrent = local.quote
          /\ LexEmit(LexAdvance(lexer),
                     IF local.is_fstring THEN "FSTRING" ELSE "STRING",
                     local.value)
       \/ /\ local.body
          /\ LET b == StringBody(lexer, local.value, local.quote) IN
             IF b.lx.pos >= Len(source)
             THEN /\ error' = [kind |-> "lexer", line |-> b.lx.line,
                               column |-> b.lx.column,
                               msg |-> "Unterminated string"]
                  /\ lexer' = b.lx
                  /\ local' = [local EXCEPT !.value = b.value, !.body = FALSE]
                  /\ pc' = "raised"
                  /\ UNCHANGED <<callArgs, project, file, conv, parser, stack,
                                 ailang_code, final_code>>
             ELSE /\ lexer' = b.lx
                  /\ local' = [local EXCEPT !.value = b.value, !.body = FALSE]
                  /\ UNCHANGED <<callArgs, project, file, conv, parser, stack, pc, error,
                                 ailang_code, final_code>>

\* _tokenize_number up to its first loop: the 0x / 0b prefix.
TokenizeNumber ==
    /\ pc = "dispatch"
    /\ lexer.pos < Len(source)
    /\ LexCurrent # "#"
    /\ ~IsStringStart
    /\ IsNumberStart
    /\ IF LexCurrent = "0" /\ LexPeek \in {"x", "X", "b", "B"}
       THEN /\ lexer' = LexAdvance(LexAdvance(lexer))
            /\ local' = [NoLocal EXCEPT !.start_col = lexer.column,
                                        !.value = LexCurrent \o LexPeek]
            /\ pc' = "hex"
       ELSE /\ lexer' = lexer
            /\ local' = [NoLocal EXCEPT !.start_col = lexer.column]
            /\ pc' = "int"
    /\ UNCHANGED <<callArgs, project, file, conv, parser, stack, error,
                   ailang_code, final_code>>

\* A loop `while <test>: value += self._advance()`: its test holds.
DigitLoopEnter ==
    /\ ~local.body
    /\ local' = [local EXCEPT !.body = TRUE]
    /\ UNCHANGED <<callArgs, project, file, conv, lexer, parser, stack, pc, error,
                   ailang_code, final_code>>

\* ... and its body.
DigitLoopBody ==
    /\ local.body
    /\ lexer' = LexAdvance(lexer)
    /\ local' = [local EXCEPT !.value = @ \o LexCurrent, !.body = FALSE]
    /\ UNCHANGED <<callArgs, project, file, conv, parser, stack, pc, error,
                   ailang_code, final_code>>

\* _tokenize_number: the loop over the digits after 0x / 0b.
HexLoop ==
    /\ pc = "hex"
    /\ \/ /\ IsDigit(LexCurrent) \/ InHexLetters(LexCurrent)
          /\ DigitLoopEnter
       \/ /\ ~local.body
          /\ ~(IsDigit(LexCurrent) \/ InHexLetters(LexCurrent))
          /\ LexEmit(lexer, "NUMBER", local.value)
       \/ DigitLoopBody

\* _tokenize_number from the scientific-notation check to the exponent loop.
ScientificCheck ==
    IF LexCurrent \in {"e", "E"}
    THEN LET lx1 == LexAdvance(lexer)
             sign == CharAt(lx1.pos) \in {"+", "-"}
         IN /\ lexer' = IF sign THEN LexAdvance(lx1) ELSE lx1
            /\ local' = [local EXCEPT
                            !.value = IF sign
                                      THEN @ \o LexCurrent \o CharAt(lx1.pos)
                                      ELSE @ \o LexCurrent]
            /\ pc' = "exp"
            /\ UNCHANGED <<callArgs, project, file, conv, parser, stack, error,
                           ailang_code, final_code>>
    ELSE LexEmit(lexer, "NUMBER", local.value)

\* _tokenize_number: the loop over the integer digits, then the decimal
\* point.
IntLoop ==
    /\ pc = "int"
    /\ \/ /\ IsDigit(LexCurrent)
          /\ DigitLoopEnter
       \/ /\ ~local.body
          /\ ~IsDigit(LexCurrent)
          /\ IF LexCurrent = "." /\ IsDigit(LexPeek)
             THEN /\ lexer' = LexAdvance(lexer)
                  /\ local' = [local EXCEPT !.value = @ \o LexCurrent]
                  /\ pc' = "frac"
                  /\ UNCHANGED <<callArgs, project, file, conv, parser, stack, error,
                                 ailang_code, final_code>>
             ELSE ScientificCheck
       \/ DigitLoopBody

\* _tokenize_number: the loop over the fractional digits.
FracLoop ==
    /\ pc = "frac"
    /\ \/ /\ IsDigit(LexCurrent)
          /\ DigitLoopEnter
       \/ /\ ~local.body
          /\ ~IsDigit(LexCurrent)
          /\ ScientificCheck
       \/ DigitLoopBody

\* _tokenize_number: the loop over the exponent digits.
ExpLoop ==
    /\ pc = "exp"
    /\ \/ /\ IsDigit(LexCurrent)
          /\ DigitLoopEnter
       \/ /\ ~local.body
          /\ ~IsDigit(LexCurrent)
          /\ LexEmit(lexer, "NUMBER", local.value)
       \/ DigitLoopBody

\* _tokenize_identifier up to its loop.
TokenizeIdentifier ==
    /\ pc = "dispatch"
    /\ lexer.pos < Len(source)
    /\ LexCurrent # "#"
    /\ ~IsStringStart
    /\ ~IsNumberStart
    /\ IsIdentifierStart
    /\ local' = [NoLocal EXCEPT !.start_col = lexer.column]
    /\ pc' = "identifier"
    /\ UNCHANGED <<callArgs, project, file, conv, lexer, parser, stack, error,
                   ailang_code, final_code>>

\* _tokenize_identifier: its loop and the keyword lookup.
IdentifierLoop ==
    /\ pc = "identifier"
    /\ \/ /\ IsAlnum(LexCurrent) \/ LexCurrent = "_"
          /\ DigitLoopEnter
       \/ /\ ~local.body
          /\ ~(IsAlnum(LexCurrent) \/ LexCurrent = "_")
          /\ LexEmit(lexer,
                     IF local.value \in DOMAIN KEYWORDS
                     THEN KEYWORDS[local.value] ELSE "IDENTIFIER",
                     local.value)
       \/ DigitLoopBody

\* _tokenize_operator, and the error of tokenize when it returns False.
TokenizeOperator ==
    /\ pc = "dispatch"
    /\ lexer.pos < Len(source)
    /\ LexCurrent # "#"
    /\ ~IsStringStart
    /\ ~IsNumberStart
    /\ ~IsIdentifierStart
    /\ LET two == TwoCharTokens(LexCurrent, LexPeek) IN
       IF two # "NONE_"
       THEN /\ lexer' = LexAppend(LexAdvance(LexAdvance(lexer)), two,
                                  LexCurrent \o LexPeek, lexer.column)
            /\ pc' = "tokenize"
            /\ UNCHANGED <<callArgs, project, file, conv, local, parser, stack, error,
                           ailang_code, final_code>>
       ELSE IF LexCurrent \in DOMAIN single_char_tokens
       THEN /\ lexer' = LexAppend(LexAdvance(lexer),
                                  single_char_tokens[LexCurrent],
                                  LexCurrent, lexer.column)
            /\ pc' = "tokenize"
            /\ UNCHANGED <<callArgs, project, file, conv, local, parser, stack, error,
                           ailang_code, final_code>>
       ELSE LexError("Unexpected character")

LexNext ==
    \/ Tokenize
    \/ SkipWhitespace
    \/ TokenizeBreak
    \/ TokenizeComment
    \/ SkipComment
    \/ TokenizeString
    \/ StringLoop
    \/ TokenizeNumber
    \/ HexLoop
    \/ IntLoop
    \/ FracLoop
    \/ ExpLoop
    \/ TokenizeIdentifier
    \/ IdentifierLoop
    \/ TokenizeOperator

----------------------------------------------------------------------------
\* FunctionMapper

mappings ==
    [n \in {"print", "len", "range", "str", "int", "float", "abs", "sum",
            "min", "max", "input", "open", "sorted", "enumerate", "zip",
            "map", "filter", "all", "any", "round", "type", "isinstance"} |->
        CASE n = "print" -> "PrintMessage"
          [] n = "len" -> "ArrayLength"
          [] n = "range" -> "AIMacro.range"
          [] n = "str" -> "ToString"
          [] n = "int" -> "ToInteger"
          [] n = "float" -> "ToFloat"
          [] n = "abs" -> "AbsoluteValue"
          [] n = "sum" -> "AIMacro.sum"
          [] n = "min" -> "AIMacro.min"
          [] n = "max" -> "AIMacro.max"
          [] n = "input" -> "AIMacro.input"
          [] n = "open" -> "FileOpen"
          [] n = "sorted" -> "AIMacro.sorted"
          [] n = "enumerate" -> "AIMacro.enumerate"
          [] n = "zip" -> "AIMacro.zip"
          [] n = "map" -> "AIMacro.map"
          [] n = "filter" -> "AIMacro.filter"
          [] n = "all" -> "AIMacro.all"
          [] n = "any" -> "AIMacro.any"
          [] n = "round" -> "Round"
          [] n = "type" -> "AIMacro.type"
          [] n = "isinstance" -> "AIMacro.isinstance"]

\* sep.join(parts)
RECURSIVE Join(_, _)
Join(parts, sep) ==
    IF parts = <<>> THEN ""
    ELSE IF Len(parts) = 1 THEN parts[1]
    ELSE parts[1] \o sep \o Join(Tail(parts), sep)

\* map_function as it would be if the table were never consulted.
map_function_unmapped(name, args) ==
    name \o "(" \o Join(args, ", ") \o ")"

map_function(name, args) ==
    IF name \in DOMAIN mappings
    THEN mappings[name] \o "(" \o Join(args, ", ") \o ")"
    ELSE name \o "(" \o Join(args, ", ") \o ")"

----------------------------------------------------------------------------
\* AIMacroParser: the cursor

\* self.tokens[p], or the synthesized EOF token at and past the end
\* (_current, _peek).
TokenAt(p) ==
    IF p < Len(parser.tokens) THEN parser.tokens[p + 1]
    ELSE Token("EOF", "", 0, 0)

TypeAt(p) == TokenAt(p).type

\* The cursor after one _advance().
ParAdvance(p) == IF p < Len(parser.tokens) + MaxOverrun THEN p + 1 ELSE p

\* The cursor after _skip_newlines().
RECURSIVE SkipNewlines(_)
SkipNewlines(p) ==
    IF TypeAt(p) = "NEWLINE" THEN SkipNewlines(ParAdvance(p)) ELSE p

\* What a grammar-rule method gives back: its text and the cursor after it,
\* or the message of the error it raised and the cursor at that moment.
Ok(text, p) ==
    [ok |-> TRUE, text |-> text, pos |-> p, msg |-> "", args |-> <<>>]

Err(p, msg) ==
    [ok |-> FALSE, text |-> "", pos |-> p, msg |-> msg, args |-> <<>>]

\* The cursor after an optional `;`.
OptSemicolon(p) == IF TypeAt(p) = "SEMICOLON" THEN ParAdvance(p) ELSE p

----------------------------------------------------------------------------
\* AIMacroParser: expressions

\* Each rule takes what the rule before it gave back as an argument.

RECURSIVE ParseOr(_), OrLoop(_), ParseAnd(_), AndLoop(_), ParseComparison(_),
          ParseAddition(_), AdditionLoop(_), ParseMultiplication(_),
          MultiplicationLoop(_), ParseUnary(_), ParsePrimary(_),
          ParseFunctionCall(_, _), ArgsLoop(_, _)

\* The value of a singleton set.  A local variable of the code is a value
\* computed once, where the code assigns it: The({e(x) : x \in {v}}) is
\* e(x) for the value x of v.
The(S) == CHOOSE r \in S : TRUE

\* f"{fn}({left}, {right})", once the right operand is parsed.
Binary(fn, left, right_) ==
    The({(
        IF right.ok
        THEN Ok(fn \o "(" \o left.text \o ", " \o right.text \o ")", right.pos)
        ELSE right)
        : right \in {right_}})

\* f"{fn}({operand})", once the operand is parsed.
Unary(fn, operand_) ==
    The({(
        IF operand.ok THEN Ok(fn \o "(" \o operand.text \o ")", operand.pos)
        ELSE operand)
        : operand \in {operand_}})

ParseExpression(p) == ParseOr(p)

ParseOr(p) == OrLoop(ParseAnd(p))

OrLoop(left_) ==
    The({(
        IF left.ok /\ TypeAt(left.pos) = "OR"
        THEN OrLoop(Binary("Or", left, ParseAnd(ParAdvance(left.pos))))
        ELSE left)
        : left \in {left_}})

ParseAnd(p) == AndLoop(ParseComparison(p))

AndLoop(left_) ==
    The({(
        IF left.ok /\ TypeAt(left.pos) = "AND"
        THEN AndLoop(Binary("And", left, ParseComparison(ParAdvance(left.pos))))
        ELSE left)
        : left \in {left_}})

ComparisonNames ==
    [t \in {"EQ", "NE", "LT", "LE", "GT", "GE"} |->
        CASE t = "EQ" -> "EqualTo"
          [] t = "NE" -> "NotEqual"
          [] t = "LT" -> "LessThan"
          [] t = "LE" -> "LessEqual"
          [] t = "GT" -> "GreaterThan"
          [] t = "GE" -> "GreaterEqual"]

\* _parse_comparison as it would be with `while` in place of `if`: every
\* comparison operator that follows is consumed, left to right.
RECURSIVE ComparisonChained(_)
ComparisonChained(left_) ==
    The({(
        IF left.ok /\ TypeAt(left.pos) \in {"EQ", "NE", "LT", "LE", "GT", "GE"}
        THEN ComparisonChained(
                 Binary(CASE TypeAt(left.pos) = "EQ" -> "EqualTo"
                          [] TypeAt(left.pos) = "NE" -> "NotEqual"
                          [] TypeAt(left.pos) = "LT" -> "LessThan"
                          [] TypeAt(left.pos) = "LE" -> "LessEqual"
                          [] TypeAt(left.pos) = "GT" -> "GreaterThan"
                          [] OTHER -> "GreaterEqual",
                        left, ParseAddition(ParAdvance(left.pos))))
        ELSE left)
        : left \in {left_}})

\* _parse_comparison after its left operand: at most one operator.
Comparison(left_) ==
    The({(
        IF left.ok /\ TypeAt(left.pos) \in DOMAIN ComparisonNames
        THEN Binary(ComparisonNames[TypeAt(left.pos)], left,
                    ParseAddition(ParAdvance(left.pos)))
        ELSE left)
        : left \in {left_}})

ParseComparison(p) == Comparison(ParseAddition(p))

\* _parse_addition as it would be with its operands taken one level too low:
\* `*`, `/` and `%` no longer bind tighter than `+` and `-`.
ParseAdditionFlat(p) == AdditionLoop(ParseUnary(p))

ParseAddition(p) == AdditionLoop(ParseMultiplication(p))

AdditionLoop(left_) ==
    The({(
        IF left.ok /\ TypeAt(left.pos) \in {"PLUS", "MINUS"}
        THEN AdditionLoop(
                 Binary(IF TypeAt(left.pos) = "PLUS" THEN "Add" ELSE "Subtract",
                        left, ParseMultiplication(ParAdvance(left.pos))))
        ELSE left)
        : left \in {left_}})

ParseMultiplication(p) == MultiplicationLoop(ParseUnary(p))

MultiplicationLoop(left_) ==
    The({(
        IF left.ok /\ TypeAt(left.pos) \in {"MULTIPLY", "DIVIDE", "MODULO"}
        THEN MultiplicationLoop(
                 Binary(CASE TypeAt(left.pos) = "MULTIPLY" -> "Multiply"
                          [] TypeAt(left.pos) = "DIVIDE" -> "Divide"
                          [] OTHER -> "Modulo",
                        left, ParseUnary(ParAdvance(left.pos))))
        ELSE left)
        : left \in {left_}})

ParseUnary(p) ==
    IF TypeAt(p) \in {"NOT", "MINUS"}
    THEN Unary(IF TypeAt(p) = "NOT" THEN "Not" ELSE "Negate",
               ParseUnary(ParAdvance(p)))
    ELSE ParsePrimary(p)

\* _parse_primary after the expression inside parentheses.
Parenthesized(expr_) ==
    The({(
        IF ~expr.ok THEN expr
        ELSE IF TypeAt(expr.pos) = "RPAREN"
        THEN Ok("(" \o expr.text \o ")", ParAdvance(expr.pos))
        ELSE Err(expr.pos, "Expected ')' after expression"))
        : expr \in {expr_}})

\* _parse_primary after the index expression of name[...].
ArrayAccess(name, index_) ==
    The({(
        IF ~index.ok THEN index
        ELSE IF TypeAt(index.pos) = "RBRACKET"
        THEN Ok("ArrayGet(" \o name \o ", " \o index.text \o ")",
                ParAdvance(index.pos))
        ELSE Err(index.pos, "Expected ']'"))
        : index \in {index_}})

ParsePrimary(p) ==
    CASE TypeAt(p) = "TRUE" -> Ok("True", ParAdvance(p))
      [] TypeAt(p) = "FALSE" -> Ok("False", ParAdvance(p))
      [] TypeAt(p) = "NONE" -> Ok("0", ParAdvance(p))
      [] TypeAt(p) = "NUMBER" -> Ok(TokenAt(p).value, ParAdvance(p))
      [] TypeAt(p) = "STRING" ->
            Ok("\"" \o TokenAt(p).value \o "\"", ParAdvance(p))
      [] TypeAt(p) = "FSTRING" ->
            Ok("StringFormat(\"" \o TokenAt(p).value \o "\")", ParAdvance(p))
      [] TypeAt(p) = "LPAREN" ->
            IF TypeAt(ParAdvance(p)) = "RPAREN"
            THEN Ok("()", ParAdvance(ParAdvance(p)))
            ELSE Parenthesized(ParseExpression(ParAdvance(p)))
      [] TypeAt(p) = "IDENTIFIER" ->
            IF TypeAt(ParAdvance(p)) = "LPAREN"
            THEN ParseFunctionCall(TokenAt(p).value, ParAdvance(p))
            ELSE IF TypeAt(ParAdvance(p)) = "LBRACKET"
            THEN ArrayAccess(TokenAt(p).value,
                             ParseExpression(ParAdvance(ParAdvance(p))))
            ELSE Ok(TokenAt(p).value, ParAdvance(p))
      [] OTHER -> Err(p, "Unexpected token in expression")

\* The argument loop of _parse_function_call after one argument.
ArgsNext(args, arg_) ==
    The({(
        IF arg.ok
        THEN ArgsLoop(Append(args, arg.text),
                      IF TypeAt(arg.pos) = "COMMA" THEN ParAdvance(arg.pos)
                      ELSE arg.pos)
        ELSE arg)
        : arg \in {arg_}})

\* The argument loop of _parse_function_call.
ArgsLoop(args, p) ==
    IF TypeAt(p) # "RPAREN" THEN ArgsNext(args, ParseExpression(p))
    ELSE [Ok("", p) EXCEPT !.args = args]

\* _parse_function_call after its argument loop.
CallEnd(name, a_) ==
    The({(
        IF ~a.ok THEN a
        ELSE IF TypeAt(a.pos) # "RPAREN" THEN Err(a.pos, "Expected ')'")
        ELSE Ok(map_function(name, a.args), OptSemicolon(ParAdvance(a.pos))))
        : a \in {a_}})

ParseFunctionCall(name, p) ==
    IF TypeAt(p) # "LPAREN" THEN Err(p, "Expected '('")
    ELSE CallEnd(name, ArgsLoop(<<>>, ParAdvance(p)))

----------------------------------------------------------------------------
\* AIMacroParser: statements and blocks

BlockKinds == {"function", "if", "else", "while", "for"}

EscapeKinds == {"ailang", "asm"}

\* One active block-parsing method: its kind, its `result` (or `content`)
\* list and, in an escape block, its brace depth.
Frame(kind, result, depth) ==
    [kind |-> kind, result |-> result, depth |-> depth]

Top == stack[Len(stack)]

Pop(stk) == SubSeq(stk, 1, Len(stk) - 1)

\* The prefix a body loop puts before a statement it appends.
Indent(kind) == IF kind = "function" THEN "        " ELSE "    "

\* The cursor of _parse_statement after its _skip_newlines().
StmtPos == SkipNewlines(parser.pos)

StmtType == TypeAt(StmtPos)

\* _error as it would be if the exception were swallowed: the cursor moves
\* and the method carries on.
ParErrorIgnored(p, msg) ==
    /\ parser' = [parser EXCEPT !.pos = p]
    /\ UNCHANGED <<callArgs, project, file, conv, lexer, local, stack, pc, error,
                   ailang_code, final_code>>

\* _error as it would be if the text emitted so far were saved on failure.
ParErrorSavesPartial(p, msg) ==
    /\ error' = [kind |-> "parser", line |-> TokenAt(p).line,
                 column |-> TokenAt(p).column, msg |-> msg]
    /\ parser' = [parser EXCEPT !.pos = p]
    /\ pc' = "raised"
    /\ file' = IF output_file
               THEN [exists |-> TRUE, content |-> Join(parser.output, "\n")]
               ELSE file
    /\ UNCHANGED <<callArgs, project, conv, lexer, local, stack, ailang_code,
                   final_code>>

\* _error of the parser: a SyntaxError at the token under the cursor p.
ParError(p, msg) ==
    /\ error' = [kind |-> "parser", line |-> TokenAt(p).line,
                 column |-> TokenAt(p).column, msg |-> msg]
    /\ parser' = [parser EXCEPT !.pos = p]
    /\ pc' = "raised"
    /\ UNCHANGED <<callArgs, project, file, conv, lexer, local, stack,
                   ailang_code, final_code>>

\* A statement method returns stmt with the cursor at p, to the loop that
\* called _parse_statement: the body loop of the innermost block of stk, or
\* the loop of parse.  `if stmt:` drops None and ''.
StatementDone(stk, stmt, p) ==
    /\ IF stk = <<>>
       THEN /\ parser' = [parser EXCEPT
                             !.pos = p,
                             !.output = IF stmt # "" THEN Append(@, stmt) ELSE @]
            /\ stack' = stk
       ELSE /\ parser' = [parser EXCEPT !.pos = p]
            /\ stack' = [stk EXCEPT
                            ![Len(stk)].result =
                                IF stmt # ""
                                THEN Append(@, Indent(stk[Len(stk)].kind) \o stmt)
                                ELSE @]
    /\ pc' = "loop"
    /\ UNCHANGED <<callArgs, project, file, conv, lexer, local, error,
                   ailang_code, final_code>>

\* A block method opens its block: the cursor moves to p and the body loop
\* starts.
BlockOpened(frame, p, at) ==
    /\ parser' = [parser EXCEPT !.pos = p]
    /\ stack' = Append(stack, frame)
    /\ pc' = at
    /\ UNCHANGED <<callArgs, project, file, conv, lexer, local, error,
                   ailang_code, final_code>>

\* The body loop goes on: _parse_statement is called.
CallParseStatement ==
    /\ pc' = "statement"
    /\ UNCHANGED <<callArgs, project, file, conv, lexer, local, parser, stack,
                   error, ailang_code,
                   final_code>>

\* `end ;` is consumed at the cursor and the block returns its lines,
\* joined, to the loop that called it.
CloseBlock(closing, endmsg) ==
    IF TypeAt(parser.pos) # "END" THEN ParError(parser.pos, endmsg)
    ELSE IF TypeAt(ParAdvance(parser.pos)) # "SEMICOLON"
    THEN ParError(ParAdvance(parser.pos), "Expected ';' after 'end'")
    ELSE StatementDone(Pop(stack), Join(Top.result \o closing, "\n"),
                       ParAdvance(ParAdvance(parser.pos)))

\* AIMacroParser(tokens): the parser is constructed on the lexer's tokens.
NewParser ==
    /\ pc = "tokenized"
    /\ parser' = [tokens |-> lexer.tokens, pos |-> 0, output |-> <<>>]
    /\ pc' = "loop"
    /\ UNCHANGED <<callArgs, project, file, conv, lexer, local, stack, error,
                   ailang_code, final_code>>

\* parse: the test of the main loop, and the return.
Parse ==
    /\ pc = "loop"
    /\ stack = <<>>
    /\ \/ /\ TypeAt(parser.pos) # "EOF"
          /\ CallParseStatement
       \/ /\ TypeAt(parser.pos) = "EOF"
          /\ ailang_code' = Join(parser.output, "\n")
          /\ pc' = "parsed"
          /\ UNCHANGED <<callArgs, project, file, conv, lexer, local, parser, stack,
                         error, final_code>>

\* The parameter loop of _parse_function.
RECURSIVE ParamsLoop(_, _)
ParamsLoop(params, p) ==
    IF TypeAt(p) # "RPAREN"
    THEN IF TypeAt(p) # "IDENTIFIER" THEN Err(p, "Expected parameter name")
         ELSE ParamsLoop(Append(params, TokenAt(p).value),
                         IF TypeAt(ParAdvance(p)) = "COMMA"
                         THEN ParAdvance(ParAdvance(p)) ELSE ParAdvance(p))
    ELSE [Ok("", p) EXCEPT !.args = params]

\* _parse_function from `)` to its body loop; text is the function's name.
FunctionSignature(name, ps_) ==
    The({(
        IF ~ps.ok THEN ps
        ELSE IF TypeAt(ParAdvance(ps.pos)) # "COLON"
        THEN Err(ParAdvance(ps.pos), "Expected ':' after function signature")
        ELSE [Ok(name, SkipNewlines(ParAdvance(ParAdvance(ps.pos))))
                 EXCEPT !.args = ps.args])
        : ps \in {ps_}})

\* _parse_function up to its body loop.
FunctionHeader(p) ==
    IF TypeAt(ParAdvance(p)) # "IDENTIFIER"
    THEN Err(ParAdvance(p), "Expected function name")
    ELSE IF TypeAt(p + 2) # "LPAREN"
    THEN Err(p + 2, "Expected '(' after function name")
    ELSE FunctionSignature(TokenAt(ParAdvance(p)).value,
                           ParamsLoop(<<>>, p + 3))

\* _parse_function has parsed its header h: it raises the header's error,
\* or starts its `result` list and its body loop.
OpenFunction(h_) ==
    \E h \in {h_} :
        IF ~h.ok THEN ParError(h.pos, h.msg)
        ELSE BlockOpened(
                 Frame("function",
                       <<"Function." \o h.text \o " {">>
                           \o [i \in 1..Len(h.args) |->
                                  "    Input: " \o h.args[i] \o ": Integer"]
                           \o <<"    Body: {">>,
                       0),
                 h.pos, "loop")

\* _parse_statement -> _parse_function: the header is parsed and the body
\* loop starts.
ParseFunction ==
    /\ pc = "statement"
    /\ StmtType \in {"DEF", "FUNC"}
    /\ OpenFunction(FunctionHeader(StmtPos))

\* _parse_function: the body loop and the rest after it.
FunctionBody ==
    /\ pc = "loop"
    /\ stack # <<>>
    /\ Top.kind = "function"
    /\ \/ /\ TypeAt(parser.pos) # "END"
          /\ CallParseStatement
       \/ /\ TypeAt(parser.pos) = "END"
          /\ CloseBlock(<<"    }", "}">>, "Expected 'end' to close function")

\* A statement method has parsed the expression expr: it raises the
\* expression's error, or skips an optional `;` and returns its text.
ExprStatement(before, expr_, after) ==
    \E expr \in {expr_} :
        IF ~expr.ok THEN ParError(expr.pos, expr.msg)
        ELSE StatementDone(stack, before \o expr.text \o after,
                           OptSemicolon(expr.pos))

\* _parse_statement -> _parse_return
ParseReturn ==
    /\ pc = "statement"
    /\ StmtType = "RETURN"
    /\ IF TypeAt(ParAdvance(StmtPos)) \in {"SEMICOLON", "NEWLINE"}
       THEN StatementDone(stack, "ReturnValue(0)", ParAdvance(StmtPos))
       ELSE ExprStatement("ReturnValue(",
                          ParseExpression(ParAdvance(StmtPos)), ")")

\* A block method's header after its expression: `:` and newlines.
HeaderEnd(cond_, colonmsg) ==
    The({(
        IF ~cond.ok THEN cond
        ELSE IF TypeAt(cond.pos) # "COLON" THEN Err(cond.pos, colonmsg)
        ELSE Ok(cond.text, SkipNewlines(ParAdvance(cond.pos))))
        : cond \in {cond_}})

\* A block method's header: an expression from p, then `:` and newlines.
ConditionHeader(p, colonmsg) == HeaderEnd(ParseExpression(p), colonmsg)

\* _parse_if, _parse_while or _parse_for has parsed its header h: it raises
\* the header's error, or starts its `result` list and its body loop.
OpenBlock(kind, before, h_, after) ==
    \E h \in {h_} :
        IF ~h.ok THEN ParError(h.pos, h.msg)
        ELSE BlockOpened(Frame(kind, <<before \o h.text \o after>>, 0),
                         h.pos, "loop")

\* _parse_statement -> _parse_if: the condition is parsed and the then loop
\* starts.
ParseIf ==
    /\ pc = "statement"
    /\ StmtType = "IF"
    /\ OpenBlock("if", "IfCondition ",
                 ConditionHeader(ParAdvance(StmtPos),
                                 "Expected ':' after if condition"),
                 " ThenBlock {")

\* _parse_if: the then loop, the `else :` after it, and the rest of the
\* method when there is no else.
IfThen ==
    /\ pc = "loop"
    /\ stack # <<>>
    /\ Top.kind = "if"
    /\ \/ /\ TypeAt(parser.pos) \notin {"ELIF", "ELSE", "END"}
          /\ CallParseStatement
       \/ /\ TypeAt(parser.pos) = "ELSE"
          /\ IF TypeAt(ParAdvance(parser.pos)) # "COLON"
             THEN ParError(ParAdvance(parser.pos), "Expected ':' after else")
             ELSE /\ parser' = [parser EXCEPT
                                   !.pos = SkipNewlines(ParAdvance(ParAdvance(@)))]
                  /\ stack' = [stack EXCEPT
                                  ![Len(stack)].kind = "else",
                                  ![Len(stack)].result =
                                      Append(@, "} ElseBlock {")]
                  /\ UNCHANGED <<callArgs, project, file, conv, lexer, local, pc,
                                 error, ailang_code,
                                 final_code>>
       \/ /\ TypeAt(parser.pos) \in {"ELIF", "END"}
          /\ CloseBlock(<<"}">>, "Expected 'end' to close if statement")

\* _parse_if: the else loop and the rest after it.
IfElse ==
    /\ pc = "loop"
    /\ stack # <<>>
    /\ Top.kind = "else"
    /\ \/ /\ TypeAt(parser.pos) # "END"
          /\ CallParseStatement
       \/ /\ TypeAt(parser.pos) = "END"
          /\ CloseBlock(<<"}">>, "Expected 'end' to close if statement")

\* _parse_statement -> _parse_while up to its body loop.
ParseWhile ==
    /\ pc = "statement"
    /\ StmtType = "WHILE"
    /\ OpenBlock("while", "WhileLoop ",
                 ConditionHeader(ParAdvance(StmtPos),
                                 "Expected ':' after while condition"),
                 " {")

\* _parse_while: the body loop and the rest after it.
WhileBody ==
    /\ pc = "loop"
    /\ stack # <<>>
    /\ Top.kind = "while"
    /\ \/ /\ TypeAt(parser.pos) # "END"
          /\ CallParseStatement
       \/ /\ TypeAt(parser.pos) = "END"
          /\ CloseBlock(<<"}">>, "Expected 'end' to close while loop")

\* _parse_statement -> _parse_for up to its body loop.
ParseFor ==
    /\ pc = "statement"
    /\ StmtType = "FOR"
    /\ IF TypeAt(StmtPos + 1) # "IDENTIFIER"
       THEN ParError(StmtPos + 1, "Expected loop variable")
       ELSE IF TypeAt(StmtPos + 2) # "IN"
       THEN ParError(StmtPos + 2, "Expected 'in' in for loop")
       ELSE OpenBlock("for",
                      "ForEvery " \o TokenAt(StmtPos + 1).value \o " in ",
                      ConditionHeader(StmtPos + 3,
                                      "Expected ':' after for loop header"),
                      " {")

\* _parse_for: the body loop and the rest after it.
ForBody ==
    /\ pc = "loop"
    /\ stack # <<>>
    /\ Top.kind = "for"
    /\ \/ /\ TypeAt(parser.pos) # "END"
          /\ CallParseStatement
       \/ /\ TypeAt(parser.pos) = "END"
          /\ CloseBlock(<<"}">>, "Expected 'end' to close for loop")

\* _parse_statement -> _parse_ailang_block up to its loop.
ParseAilangBlock ==
    /\ pc = "statement"
    /\ StmtType = "AILANG"
    /\ IF TypeAt(ParAdvance(StmtPos)) # "LBRACE"
       THEN ParError(ParAdvance(StmtPos), "Expected '{' after 'ailang'")
       ELSE BlockOpened(Frame("ailang", <<>>, 1),
                        ParAdvance(ParAdvance(StmtPos)), "escape")

\* _parse_ailang_block: one pass of `while depth > 0`, and the rest of the
\* method when the depth reaches 0.
AilangLoop ==
    /\ pc = "escape"
    /\ Top.kind = "ailang"
    /\ LET token == TokenAt(parser.pos)
           p1 == ParAdvance(parser.pos)
       IN CASE token.type = "LBRACE" ->
                 /\ parser' = [parser EXCEPT !.pos = p1]
                 /\ stack' = [stack EXCEPT
                                 ![Len(stack)].depth = @ + 1,
                                 ![Len(stack)].result = Append(@, "{")]
                 /\ UNCHANGED <<callArgs, project, file, conv, lexer, local, pc,
                                error, ailang_code,
                                final_code>>
            [] token.type = "RBRACE" ->
                 IF Top.depth - 1 > 0
                 THEN /\ parser' = [parser EXCEPT !.pos = p1]
                      /\ stack' = [stack EXCEPT
                                      ![Len(stack)].depth = @ - 1,
                                      ![Len(stack)].result = Append(@, "}")]
                      /\ UNCHANGED <<callArgs, project, file, conv, lexer, local, pc, error,
                                     ailang_code, final_code>>
                 ELSE StatementDone(Pop(stack), Join(Top.result, ""),
                                    OptSemicolon(p1))
            [] token.type = "EOF" -> ParError(p1, "Unterminated ailang block")
            [] OTHER ->
                 /\ parser' = [parser EXCEPT !.pos = p1]
                 /\ stack' = [stack EXCEPT
                                 ![Len(stack)].result =
                                     IF token.value # ""
                                     THEN Append(@, token.value) ELSE @]
                 /\ UNCHANGED <<callArgs, project, file, conv, lexer, local, pc,
                                error, ailang_code,
                                final_code>>

\* _parse_statement -> _parse_asm_block up to its loop.
ParseAsmBlock ==
    /\ pc = "statement"
    /\ StmtType = "ASM"
    /\ IF TypeAt(ParAdvance(StmtPos)) # "LBRACE"
       THEN ParError(ParAdvance(StmtPos), "Expected '{' after 'asm'")
       ELSE BlockOpened(Frame("asm", <<"InlineAssembly {">>, 1),
                        ParAdvance(ParAdvance(StmtPos)), "escape")

\* _parse_asm_block: one pass of `while depth > 0`, and the rest of the
\* method when the depth reaches 0.
AsmLoop ==
    /\ pc = "escape"
    /\ Top.kind = "asm"
    /\ LET token == TokenAt(parser.pos)
           p1 == ParAdvance(parser.pos)
       IN CASE token.type = "LBRACE" ->
                 /\ parser' = [parser EXCEPT !.pos = p1]
                 /\ stack' = [stack EXCEPT ![Len(stack)].depth = @ + 1]
                 /\ UNCHANGED <<callArgs, project, file, conv, lexer, local, pc,
                                error, ailang_code,
                                final_code>>
            [] token.type = "RBRACE" ->
                 IF Top.depth - 1 > 0
                 THEN /\ parser' = [parser EXCEPT !.pos = p1]
                      /\ stack' = [stack EXCEPT
                                      ![Len(stack)].depth = @ - 1,
                                      ![Len(stack)].result = Append(@, "}")]
                      /\ UNCHANGED <<callArgs, project, file, conv, lexer, local, pc, error,
                                     ailang_code, final_code>>
                 ELSE StatementDone(Pop(stack),
                                    Join(Append(Top.result, "}"), "\n"),
                                    OptSemicolon(p1))
            [] token.type = "EOF" -> ParError(p1, "Unterminated asm block")
            [] OTHER ->
                 /\ parser' = [parser EXCEPT !.pos = p1]
                 /\ stack' = [stack EXCEPT
                                 ![Len(stack)].result =
                                     IF token.value # ""
                                     THEN Append(@, "    " \o token.value)
                                     ELSE @]
                 /\ UNCHANGED <<callArgs, project, file, conv, lexer, local, pc,
                                error, ailang_code,
                                final_code>>

\* _parse_assignment_or_call has parsed a call: it raises the call's error
\* or returns its text (the optional `;` is skipped by _parse_function_call).
CallStatement(call_) ==
    \E call \in {call_} :
        IF ~call.ok THEN ParError(call.pos, call.msg)
        ELSE StatementDone(stack, call.text, call.pos)

\* _parse_statement -> _parse_assignment_or_call
ParseAssignmentOrCall ==
    /\ pc = "statement"
    /\ StmtType = "IDENTIFIER"
    /\ IF TypeAt(StmtPos + 1) = "ASSIGN"
       THEN ExprStatement(TokenAt(StmtPos).value \o " = ",
                          ParseExpression(StmtPos + 2), "")
       ELSE IF TypeAt(StmtPos + 1) = "LPAREN"
       THEN CallStatement(ParseFunctionCall(TokenAt(StmtPos).value,
                                            StmtPos + 1))
       ELSE StatementDone(stack, TokenAt(StmtPos).value, StmtPos + 1)

\* _parse_statement: the bare `end ;`, which returns the closing marker.
ParseEndMarker ==
    /\ pc = "statement"
    /\ StmtType = "END"
    /\ IF TypeAt(ParAdvance(StmtPos)) # "SEMICOLON"
       THEN ParError(ParAdvance(StmtPos), "Expected ';' after 'end'")
       ELSE StatementDone(stack, "}", ParAdvance(ParAdvance(StmtPos)))

\* _parse_statement: the empty statement.
ParseEmptyStatement ==
    /\ pc = "statement"
    /\ StmtType = "SEMICOLON"
    /\ StatementDone(stack, "", ParAdvance(StmtPos))

\* _parse_statement: any other token is skipped.
SkipUnknownToken ==
    /\ pc = "statement"
    /\ StmtType \notin {"DEF", "FUNC", "RETURN", "IF", "WHILE", "FOR", "AILANG",
                        "ASM", "IDENTIFIER", "END", "SEMICOLON"}
    /\ StatementDone(stack, "", ParAdvance(StmtPos))

ParNext ==
    \/ NewParser
    \/ Parse
    \/ ParseFunction
    \/ FunctionBody
    \/ ParseReturn
    \/ ParseIf
    \/ IfThen
    \/ IfElse
    \/ ParseWhile
    \/ WhileBody
    \/ ParseFor
    \/ ForBody
    \/ ParseAilangBlock
    \/ AilangLoop
    \/ ParseAsmBlock
    \/ AsmLoop
    \/ ParseAssignmentOrCall
    \/ ParseEndMarker
    \/ ParseEmptyStatement
    \/ SkipUnknownToken

----------------------------------------------------------------------------
\* compile_aimacro

\* The header as it would be without its library-import line.
HeaderCommentOnly == "// Generated from AIMacro source\n"

Header == "// Generated from AIMacro source\nLibraryImport Library.AIMacro\n\n"

\* compile_aimacro after parse: the header is put before the parser's text,
\* and the result is written to the output file if one is named.
CompileAimacro ==
    /\ pc = "parsed"
    /\ final_code' = Header \o ailang_code
    /\ file' = IF output_file
               THEN [exists |-> TRUE, content |-> Header \o ailang_code]
               ELSE file
    /\ pc' = "done"
    /\ UNCHANGED <<callArgs, project, conv, lexer, local, parser, stack, error, ailang_code>>

----------------------------------------------------------------------------
\* PythonToAIMacroConverter (src/Python_to_AIMacro_Converter.py).  One run
\* is one call convert_source(py_source) on a converter made with the
\* default add_semicolons=True.  in_class and in_function are written by
\* convert_source and never read: they are left out.

\* source.split('\n'), the lines as sequences of characters: the pieces
\* between the newlines, one more than there are newlines.
SplitLines(src) ==
    LET newlines == {k \in 1..Len(src) : src[k] = "\n"}
        Newline(n) ==
            IF n = 0 THEN 0
            ELSE IF n > Cardinality(newlines) THEN Len(src) + 1
            ELSE CHOOSE k \in newlines :
                     Cardinality({q \in newlines : q <= k}) = n
    IN  [n \in 1..(Cardinality(newlines) + 1) |->
            SubSeq(src, Newline(n - 1) + 1, Newline(n) - 1)]

\* line.lstrip()
RECURSIVE Lstrip(_)
Lstrip(line) ==
    IF line # <<>> /\ Head(line) \in {" ", "\t"} THEN Lstrip(Tail(line))
    ELSE line

\* s.startswith(k), s.endswith(k)
StartsWith(s, k) == Len(k) <= Len(s) /\ SubSeq(s, 1, Len(k)) = k
EndsWith(s, k) ==
    Len(k) <= Len(s) /\ SubSeq(s, Len(s) - Len(k) + 1, Len(s)) = k

\* The text of a line.
RECURSIVE Text(_)
Text(line) == IF line = <<>> THEN "" ELSE Head(line) \o Text(Tail(line))

\* ' ' * n
RECURSIVE Spaces(_)
Spaces(n) == IF n = 0 THEN "" ELSE " " \o Spaces(n - 1)

\* _get_block_type: the keywords in the order of the dictionary.
block_keywords ==
    <<<<<<"d", "e", "f", " ">>, "def">>,
      <<<<"c", "l", "a", "s", "s", " ">>, "class">>,
      <<<<"i", "f", " ">>, "if">>,
      <<<<"e", "l", "i", "f", " ">>, "elif">>,
      <<<<"e", "l", "s", "e", ":">>, "else">>,
      <<<<"e", "l", "s", "e", " ">>, "else">>,
      <<<<"f", "o", "r", " ">>, "for">>,
      <<<<"w", "h", "i", "l", "e", " ">>, "while">>,
      <<<<"t", "r", "y", ":">>, "try">>,
      <<<<"t", "r", "y", " ">>, "try">>,
      <<<<"e", "x", "c", "e", "p", "t">>, "except">>,
      <<<<"f", "i", "n", "a", "l", "l", "y", ":">>, "finally">>,
      <<<<"f", "i", "n", "a", "l", "l", "y", " ">>, "finally">>,
      <<<<"w", "i", "t", "h", " ">>, "with">>>>

RECURSIVE FirstKeyword(_, _)
FirstKeyword(stripped, k) ==
    IF k > Len(block_keywords) THEN ""
    ELSE IF StartsWith(stripped, block_keywords[k][1])
    THEN block_keywords[k][2]
    ELSE FirstKeyword(stripped, k + 1)

\* _get_block_type(stripped), "" for None.
get_block_type(stripped) == FirstKeyword(stripped, 1)

\* _process_block_start returns the line as it is.
process_block_start(line) == Text(line)

skip_semicolon ==
    {<<"p", "a", "s", "s">>,
     <<"b", "r", "e", "a", "k">>,
     <<"c", "o", "n", "t", "i", "n", "u", "e">>,
     <<"r", "e", "t", "u", "r", "n">>,
     <<"y", "i", "e", "l", "d">>,
     <<"r", "a", "i", "s", "e">>,
     <<"i", "m", "p", "o", "r", "t", " ">>,
     <<"f", "r", "o", "m", " ">>,
     <<"g", "l", "o", "b", "a", "l", " ">>,
     <<"n", "o", "n", "l", "o", "c", "a", "l", " ">>}

\* _process_statement(line, stripped)
process_statement(line, stripped) ==
    IF \E keyword \in skip_semicolon : StartsWith(stripped, keyword)
    THEN IF ~EndsWith(stripped, <<";">>) THEN Text(line) \o ";"
         ELSE Text(line)
    ELSE IF EndsWith(stripped, <<":">>) \/ EndsWith(stripped, <<";">>)
    THEN Text(line)
    ELSE IF StartsWith(stripped, <<"@">>) THEN Text(line)
    ELSE IF EndsWith(stripped, <<"\\">>) THEN Text(line)
    ELSE Text(line) \o ";"

\* The dedent loop as an `if`: at most one block is popped for a line.
DedentOnce(block_stack, result, indent) ==
    IF block_stack # <<>> /\ indent < block_stack[Len(block_stack)].indent
    THEN [block_stack |-> SubSeq(block_stack, 1, Len(block_stack) - 1),
          result |-> Append(result,
                            Spaces(block_stack[Len(block_stack)].indent)
                                \o "end;")]
    ELSE [block_stack |-> block_stack, result |-> result]

\* `while block_stack and indent < block_stack[-1][1]`: the blocks popped
\* and the `end;` lines appended for them.
RECURSIVE Dedent(_, _, _)
Dedent(block_stack, result, indent) ==
    IF block_stack # <<>> /\ indent < block_stack[Len(block_stack)].indent
    THEN Dedent(SubSeq(block_stack, 1, Len(block_stack) - 1),
                Append(result,
                       Spaces(block_stack[Len(block_stack)].indent) \o "end;"),
                indent)
    ELSE [block_stack |-> block_stack, result |-> result]

\* `while block_stack:` after the loop over the lines.
RECURSIVE CloseRemaining(_, _)
CloseRemaining(block_stack, result) ==
    IF block_stack # <<>>
    THEN CloseRemaining(SubSeq(block_stack, 1, Len(block_stack) - 1),
                        Append(result,
                               Spaces(block_stack[Len(block_stack)].indent)
                                   \o "end;"))
    ELSE result

\* convert_source up to its loop.
ConvertSource ==
    /\ pc = "convert"
    /\ conv' = [conv EXCEPT !.lines = SplitLines(py_source)]
    /\ pc' = "convert_loop"
    /\ UNCHANGED <<callArgs, project, file, lexer, local, parser, stack, error,
                   ailang_code, final_code>>

\* One pass of `while i < len(lines)`.
ConvertLine ==
    /\ pc = "convert_loop"
    /\ conv.i < Len(conv.lines)
    /\ LET line == conv.lines[conv.i + 1]
           stripped == Lstrip(line)
           indent == Len(line) - Len(stripped)
           closed == Dedent(conv.block_stack, conv.result, indent)
           block_type == get_block_type(stripped)
       IN  conv' =
              IF stripped = <<>> \/ Head(stripped) = "#"
              THEN [conv EXCEPT !.result = Append(@, Text(line)),
                                !.i = @ + 1]
              ELSE IF block_type # ""
              THEN [conv EXCEPT
                       !.result = Append(closed.result,
                                         process_block_start(line)),
                       !.block_stack =
                           Append(closed.block_stack,
                                  [type |-> block_type, indent |-> indent]),
                       !.i = @ + 1]
              ELSE [conv EXCEPT
                       !.result = Append(closed.result,
                                         process_statement(line, stripped)),
                       !.block_stack = closed.block_stack,
                       !.i = @ + 1]
    /\ UNCHANGED <<callArgs, project, file, lexer, local, parser, stack, pc, error,
                   ailang_code, final_code>>

\* convert_source after its loop: the blocks still open are closed and the
\* lines are joined.
ConvertReturn ==
    /\ pc = "convert_loop"
    /\ ~(conv.i < Len(conv.lines))
    /\ conv' = [conv EXCEPT
                   !.result = CloseRemaining(conv.block_stack, conv.result),
                   !.block_stack = <<>>,
                   !.converted =
                       Join(CloseRemaining(conv.block_stack, conv.result),
                            "\n")]
    /\ pc' = "converted"
    /\ UNCHANGED <<callArgs, project, file, lexer, local, parser, stack, error,
                   ailang_code, final_code>>

ConvNext ==
    \/ ConvertSource
    \/ ConvertLine
    \/ ConvertReturn

----------------------------------------------------------------------------
\* PythonProjectConverter (src/Batch_Python_to_AIMacro_Converter.py).  A run
\* is either one call _topological_sort(graph) or the loop of
\* convert_project over sorted_files with the calls of _convert_file it
\* makes.  Files are numbered; graph.keys is the order of the dictionary's
\* keys and graph.deps[f] the set of files f depends on.

\* No method of the project converter is running.
NoProject ==
    [visited |-> {}, stack |-> <<>>, calls |-> <<>>, n |-> 0,
     sorted_files |-> <<>>, k |-> 0, written |-> {},
     converted_modules |-> {}, failed_conversions |-> <<>>]

NoGraph == [keys |-> <<>>, deps |-> <<>>]

\* graph.get(node, set())
GraphGet(node) ==
    IF node \in DOMAIN graph.deps THEN graph.deps[node] ELSE {}

\* The call visit(node): it returns at once for a visited node; otherwise
\* the node is marked and the loop over its dependencies starts.
CallVisit(p, node) ==
    IF node \in p.visited THEN p
    ELSE [p EXCEPT !.visited = @ \cup {node},
                   !.calls = Append(@, [node |-> node, deps |-> GraphGet(node)])]

\* The end of visit(node) with stack.insert(0, node) for stack.append(node).
LeaveVisitInsertFirst(p) ==
    [p EXCEPT !.stack = <<p.calls[Len(p.calls)].node>> \o @,
              !.calls = SubSeq(@, 1, Len(@) - 1)]

\* The end of visit(node): stack.append(node), and the call returns.
LeaveVisit(p) ==
    [p EXCEPT !.stack = Append(@, p.calls[Len(p.calls)].node),
              !.calls = SubSeq(@, 1, Len(@) - 1)]

\* `for node in graph: visit(node)`, the next key.
SortLoop ==
    /\ pc = "topological_sort"
    /\ project.calls = <<>>
    /\ project.n < Len(graph.keys)
    /\ project' = CallVisit([project EXCEPT !.n = @ + 1],
                            graph.keys[project.n + 1])
    /\ UNCHANGED <<callArgs, file, conv, lexer, local, parser, stack, pc,
                   error, ailang_code, final_code>>

\* `for dep in graph.get(node, set()): visit(dep)`, the next dependency; a
\* set is iterated in no particular order.
VisitDep ==
    /\ pc = "topological_sort"
    /\ project.calls # <<>>
    /\ \E dep \in project.calls[Len(project.calls)].deps :
           project' =
               CallVisit([project EXCEPT
                             !.calls[Len(project.calls)].deps = @ \ {dep}],
                         dep)
    /\ UNCHANGED <<callArgs, file, conv, lexer, local, parser, stack, pc,
                   error, ailang_code, final_code>>

\* visit(node) after the loop over its dependencies.
VisitReturn ==
    /\ pc = "topological_sort"
    /\ project.calls # <<>>
    /\ project.calls[Len(project.calls)].deps = {}
    /\ project' = LeaveVisit(project)
    /\ UNCHANGED <<callArgs, file, conv, lexer, local, parser, stack, pc,
                   error, ailang_code, final_code>>

\* `return stack`
SortReturn ==
    /\ pc = "topological_sort"
    /\ project.calls = <<>>
    /\ project.n = Len(graph.keys)
    /\ project' = [project EXCEPT !.sorted_files = project.stack]
    /\ pc' = "sorted"
    /\ UNCHANGED <<callArgs, file, conv, lexer, local, parser, stack, error,
                   ailang_code, final_code>>

\* The file _convert_file is called on.
PyFile == project.sorted_files[project.k + 1]

\* `except Exception as e` of _convert_file with the file also counted as
\* converted.
RecordFailureAndConverted(p, e) ==
    [p EXCEPT !.failed_conversions =
                  Append(@, [file |-> p.sorted_files[p.k + 1], error |-> e]),
              !.converted_modules = @ \cup {p.sorted_files[p.k + 1]},
              !.k = @ + 1]

\* `except Exception as e` of _convert_file: the failure is recorded and
\* _convert_file returns, so the loop goes on with the next file.
RecordFailure(p, e) ==
    [p EXCEPT !.failed_conversions =
                  Append(@, [file |-> p.sorted_files[p.k + 1], error |-> e]),
              !.k = @ + 1]

\* `for py_file in sorted_files: self._convert_file(py_file)`: the call,
\* up to the try.
ConvertFile ==
    /\ pc = "convert_files"
    /\ project.k < Len(project.sorted_files)
    /\ pc' = "read"
    /\ UNCHANGED <<callArgs, project, file, conv, lexer, local, parser, stack,
                   error, ailang_code, final_code>>

\* `with open(py_file, 'r') as f: source = f.read()`, which may raise.
ReadSource ==
    /\ pc = "read"
    /\ \/ /\ pc' = "convert_source"
          /\ UNCHANGED project
       \/ /\ project' = RecordFailure(project, "read")
          /\ pc' = "convert_files"
    /\ UNCHANGED <<callArgs, file, conv, lexer, local, parser, stack, error,
                   ailang_code, final_code>>

\* `converted = self._convert_source_with_imports(source, py_file)`, which
\* may raise.
ConvertSourceWithImports ==
    /\ pc = "convert_source"
    /\ \/ /\ pc' = "write"
          /\ UNCHANGED project
       \/ /\ project' = RecordFailure(project, "convert")
          /\ pc' = "convert_files"
    /\ UNCHANGED <<callArgs, file, conv, lexer, local, parser, stack, error,
                   ailang_code, final_code>>

\* `with open(output_file, 'w') as f: f.write(converted)`, which may raise.
WriteOutput ==
    /\ pc = "write"
    /\ \/ /\ project' = [project EXCEPT !.written = @ \cup {PyFile}]
          /\ pc' = "written"
       \/ /\ project' = RecordFailure(project, "write")
          /\ pc' = "convert_files"
    /\ UNCHANGED <<callArgs, file, conv, lexer, local, parser, stack, error,
                   ailang_code, final_code>>

\* `self.converted_modules.add(str(rel_path))`, and _convert_file returns.
AddConverted ==
    /\ pc = "written"
    /\ project' = [project EXCEPT !.converted_modules = @ \cup {PyFile},
                                  !.k = @ + 1]
    /\ pc' = "convert_files"
    /\ UNCHANGED <<callArgs, file, conv, lexer, local, parser, stack, error,
                   ailang_code, final_code>>

\* The loop of convert_project is over.
ConvertFilesEnd ==
    /\ pc = "convert_files"
    /\ project.k = Len(project.sorted_files)
    /\ pc' = "files_converted"
    /\ UNCHANGED <<callArgs, project, file, conv, lexer, local, parser, stack,
                   error, ailang_code, final_code>>

BatchNext ==
    \/ SortLoop
    \/ VisitDep
    \/ VisitReturn
    \/ SortReturn
    \/ ConvertFile
    \/ ReadSource
    \/ ConvertSourceWithImports
    \/ WriteOutput
    \/ AddConverted
    \/ ConvertFilesEnd

----------------------------------------------------------------------------
\* The sources compile_aimacro is called on

\* "def add(x, y):\n    return x + y;\nend;\n"
SrcDefAdd ==
    <<"d", "e", "f", " ", "a", "d", "d", "(", "x", ",", " ", "y", ")", ":", "\n", " ", " ",
      " ", " ", "r", "e", "t", "u", "r", "n", " ", "x", " ", "+", " ", "y", ";", "\n", "e",
      "n", "d", ";", "\n">>

\* "def add(x, y): return x + y; end;"
SrcDefAddOneLine ==
    <<"d", "e", "f", " ", "a", "d", "d", "(", "x", ",", " ", "y", ")", ":", " ", "r", "e",
      "t", "u", "r", "n", " ", "x", " ", "+", " ", "y", ";", " ", "e", "n", "d", ";">>

\* "if x > 0:\n    return 1;\nelse:\n    return -1;\nend;\n"
SrcIfElse ==
    <<"i", "f", " ", "x", " ", ">", " ", "0", ":", "\n", " ", " ", " ", " ", "r", "e", "t",
      "u", "r", "n", " ", "1", ";", "\n", "e", "l", "s", "e", ":", "\n", " ", " ", " ",
      " ", "r", "e", "t", "u", "r", "n", " ", "-", "1", ";", "\n", "e", "n", "d", ";", "\n">>

\* "if x > 0: return 1; else: return -1; end;"
SrcIfElseOneLine ==
    <<"i", "f", " ", "x", " ", ">", " ", "0", ":", " ", "r", "e", "t", "u", "r", "n", " ",
      "1", ";", " ", "e", "l", "s", "e", ":", " ", "r", "e", "t", "u", "r", "n", " ", "-",
      "1", ";", " ", "e", "n", "d", ";">>

\* "while x: y = 1;"
SrcWhileOpen ==
    <<"w", "h", "i", "l", "e", " ", "x", ":", " ", "y", " ", "=", " ", "1", ";">>

\* "for i in r:"
SrcForOpen ==
    <<"f", "o", "r", " ", "i", " ", "i", "n", " ", "r", ":">>

\* "while x: y = 1;\nend;"
SrcWhileNewline ==
    <<"w", "h", "i", "l", "e", " ", "x", ":", " ", "y", " ", "=", " ", "1", ";", "\n", "e",
      "n", "d", ";">>

\* "def f(): while x: if y: z = 1; end; end; end;"
SrcNested ==
    <<"d", "e", "f", " ", "f", "(", ")", ":", " ", "w", "h", "i", "l", "e", " ", "x", ":",
      " ", "i", "f", " ", "y", ":", " ", "z", " ", "=", " ", "1", ";", " ", "e", "n", "d",
      ";", " ", "e", "n", "d", ";", " ", "e", "n", "d", ";">>

\* "for i in r:\nif y: z = 1; end;\nend;"
SrcNestedNewline ==
    <<"f", "o", "r", " ", "i", " ", "i", "n", " ", "r", ":", "\n", "i", "f", " ", "y", ":",
      " ", "z", " ", "=", " ", "1", ";", " ", "e", "n", "d", ";", "\n", "e", "n", "d", ";">>

\* "ailang { buffer = Allocate(1024) };"
SrcAilang ==
    <<"a", "i", "l", "a", "n", "g", " ", "{", " ", "b", "u", "f", "f", "e", "r", " ", "=",
      " ", "A", "l", "l", "o", "c", "a", "t", "e", "(", "1", "0", "2", "4", ")", " ", "}",
      ";">>

\* "asm { MOV RAX, 60 };"
SrcAsm ==
    <<"a", "s", "m", " ", "{", " ", "M", "O", "V", " ", "R", "A", "X", ",", " ", "6", "0",
      " ", "}", ";">>

\* "ailang { a { b } c };"
SrcAilangNested ==
    <<"a", "i", "l", "a", "n", "g", " ", "{", " ", "a", " ", "{", " ", "b", " ", "}", " ",
      "c", " ", "}", ";">>

\* "asm { a { b } c };"
SrcAsmNested ==
    <<"a", "s", "m", " ", "{", " ", "a", " ", "{", " ", "b", " ", "}", " ", "c", " ", "}",
      ";">>

\* "x = 0xFF"
SrcHexAtEnd ==
    <<"x", " ", "=", " ", "0", "x", "F", "F">>

\* "x = 0xFF;"
SrcHexThenSemi ==
    <<"x", " ", "=", " ", "0", "x", "F", "F", ";">>

\* "0b1"
SrcBinAtEnd ==
    <<"0", "b", "1">>

\* "# c\nx = 1.5e-3 # d"
SrcComment ==
    <<"#", " ", "c", "\n", "x", " ", "=", " ", "1", ".", "5", "e", "-", "3", " ", "#", " ",
      "d">>

\* "print(f\"hi\", len(a), 'it\'s');"
SrcCall ==
    <<"p", "r", "i", "n", "t", "(", "f", "\"", "h", "i", "\"", ",", " ", "l", "e", "n",
      "(", "a", ")", ",", " ", "'", "i", "t", "\\", "'", "s", "'", ")", ";">>

\* "while x < 3: x = x + 1; end;"
SrcWhileOneLine ==
    <<"w", "h", "i", "l", "e", " ", "x", " ", "<", " ", "3", ":", " ", "x", " ", "=", " ",
      "x", " ", "+", " ", "1", ";", " ", "e", "n", "d", ";">>

\* "for i in range(3): print(i); end;"
SrcForOneLine ==
    <<"f", "o", "r", " ", "i", " ", "i", "n", " ", "r", "a", "n", "g", "e", "(", "3", ")",
      ":", " ", "p", "r", "i", "n", "t", "(", "i", ")", ";", " ", "e", "n", "d", ";">>

\* "if a: b; end;"
SrcIfOneLine ==
    <<"i", "f", " ", "a", ":", " ", "b", ";", " ", "e", "n", "d", ";">>

\* "if a: b; elif c: d; end;"
SrcElif ==
    <<"i", "f", " ", "a", ":", " ", "b", ";", " ", "e", "l", "i", "f", " ", "c", ":", " ",
      "d", ";", " ", "e", "n", "d", ";">>

\* "ailang { x"
SrcAilangOpen ==
    <<"a", "i", "l", "a", "n", "g", " ", "{", " ", "x">>

\* "asm { {"
SrcAsmOpen ==
    <<"a", "s", "m", " ", "{", " ", "{">>

\* "def (x):"
SrcFuncNoName ==
    <<"d", "e", "f", " ", "(", "x", ")", ":">>

\* "end x"
SrcEndNoSemi ==
    <<"e", "n", "d", " ", "x">>

\* "while x y"
SrcNoColon ==
    <<"w", "h", "i", "l", "e", " ", "x", " ", "y">>

\* "if x: y; else z"
SrcElseNoColon ==
    <<"i", "f", " ", "x", ":", " ", "y", ";", " ", "e", "l", "s", "e", " ", "z">>

\* "for 1 in r: end;"
SrcForNoVar ==
    <<"f", "o", "r", " ", "1", " ", "i", "n", " ", "r", ":", " ", "e", "n", "d", ";">>

\* "for i of r: end;"
SrcForNoIn ==
    <<"f", "o", "r", " ", "i", " ", "o", "f", " ", "r", ":", " ", "e", "n", "d", ";">>

\* "ailang x"
SrcAilangNoBrace ==
    <<"a", "i", "l", "a", "n", "g", " ", "x">>

\* "asm x"
SrcAsmNoBrace ==
    <<"a", "s", "m", " ", "x">>

\* "return;"
SrcReturnBare ==
    <<"r", "e", "t", "u", "r", "n", ";">>

\* "x = ;"
SrcBadExpr ==
    <<"x", " ", "=", " ", ";">>

\* "r = a + b * c;"
SrcPrecMul ==
    <<"r", " ", "=", " ", "a", " ", "+", " ", "b", " ", "*", " ", "c", ";">>

\* "r = (a + b) * c;"
SrcPrecParen ==
    <<"r", " ", "=", " ", "(", "a", " ", "+", " ", "b", ")", " ", "*", " ", "c", ";">>

\* "r = a - b - c;"
SrcPrecLeft ==
    <<"r", " ", "=", " ", "a", " ", "-", " ", "b", " ", "-", " ", "c", ";">>

\* "r = x > 5 and y < 10 or z == 0;"
SrcPrecBool ==
    <<"r", " ", "=", " ", "x", " ", ">", " ", "5", " ", "a", "n", "d", " ", "y", " ", "<",
      " ", "1", "0", " ", "o", "r", " ", "z", " ", "=", "=", " ", "0", ";">>

\* "r = a < b < c;"
SrcChain ==
    <<"r", " ", "=", " ", "a", " ", "<", " ", "b", " ", "<", " ", "c", ";">>

\* "if a < b < c: x; end;"
SrcIfChain ==
    <<"i", "f", " ", "a", " ", "<", " ", "b", " ", "<", " ", "c", ":", " ", "x", ";", " ",
      "e", "n", "d", ";">>

\* "while a < b < c: x; end;"
SrcWhileChain ==
    <<"w", "h", "i", "l", "e", " ", "a", " ", "<", " ", "b", " ", "<", " ", "c", ":", " ",
      "x", ";", " ", "e", "n", "d", ";">>

\* "r = a < b and b < c;"
SrcAndChain ==
    <<"r", " ", "=", " ", "a", " ", "<", " ", "b", " ", "a", "n", "d", " ", "b", " ", "<",
      " ", "c", ";">>

\* "r = len(array) > 0;"
SrcLenCond ==
    <<"r", " ", "=", " ", "l", "e", "n", "(", "a", "r", "r", "a", "y", ")", " ", ">", " ",
      "0", ";">>

\* "r = foo(a + 1, len(b));"
SrcUnmapped ==
    <<"r", " ", "=", " ", "f", "o", "o", "(", "a", " ", "+", " ", "1", ",", " ", "l", "e",
      "n", "(", "b", ")", ")", ";">>

\* "x = \"abc"
SrcStrOpen ==
    <<"x", " ", "=", " ", "\"", "a", "b", "c">>

\* "y = 1;\n  f'ab"
SrcFStrOpen ==
    <<"y", " ", "=", " ", "1", ";", "\n", " ", " ", "f", "'", "a", "b">>

\* "result = x + y\nreturn result\nprint(result)\n"
SrcNoSemis ==
    <<"r", "e", "s", "u", "l", "t", " ", "=", " ", "x", " ", "+", " ", "y", "\n", "r", "e",
      "t", "u", "r", "n", " ", "r", "e", "s", "u", "l", "t", "\n", "p", "r", "i", "n", "t",
      "(", "r", "e", "s", "u", "l", "t", ")", "\n">>

\* "result = x + y;\nreturn result;\nprint(result);\n"
SrcSemis ==
    <<"r", "e", "s", "u", "l", "t", " ", "=", " ", "x", " ", "+", " ", "y", ";", "\n", "r",
      "e", "t", "u", "r", "n", " ", "r", "e", "s", "u", "l", "t", ";", "\n", "p", "r", "i",
      "n", "t", "(", "r", "e", "s", "u", "l", "t", ")", ";", "\n">>

\* "x = 1\nreturn"
SrcNoSemiReturn ==
    <<"x", " ", "=", " ", "1", "\n", "r", "e", "t", "u", "r", "n">>

\* "x = 1;\nreturn;"
SrcSemiReturn ==
    <<"x", " ", "=", " ", "1", ";", "\n", "r", "e", "t", "u", "r", "n", ";">>

\* "if x > 0:\n    return 1;\nelif x < 0:\n    return 2;\nelse:\n    return 3;\nend;\n"
SrcElifLines ==
    <<"i", "f", " ", "x", " ", ">", " ", "0", ":", "\n", " ", " ", " ", " ", "r", "e", "t",
      "u", "r", "n", " ", "1", ";", "\n", "e", "l", "i", "f", " ", "x", " ", "<", " ", "0",
      ":", "\n", " ", " ", " ", " ", "r", "e", "t", "u", "r", "n", " ", "2", ";", "\n",
      "e", "l", "s", "e", ":", "\n", " ", " ", " ", " ", "r", "e", "t", "u", "r", "n", " ",
      "3", ";", "\n", "e", "n", "d", ";", "\n">>

\* "while x: asm { y"
SrcWhileAsmOpen ==
    <<"w", "h", "i", "l", "e", " ", "x", ":", " ", "a", "s", "m", " ", "{", " ", "y">>

\* "result = (a + b) * (c - d) / 2;"
SrcComplexExpr ==
    <<"r", "e", "s", "u", "l", "t", " ", "=", " ", "(", "a", " ", "+", " ", "b", ")", " ",
      "*", " ", "(", "c", " ", "-", " ", "d", ")", " ", "/", " ", "2", ";">>

\* "return -1;"
SrcReturnNeg ==
    <<"r", "e", "t", "u", "r", "n", " ", "-", "1", ";">>

\* "x = -1.5;"
SrcAssignNegFloat ==
    <<"x", " ", "=", " ", "-", "1", ".", "5", ";">>

\* "42 3.14 0xFF 0b1010 1.5e-3"
SrcNumbers ==
    <<"4", "2", " ", "3", ".", "1", "4", " ", "0", "x", "F", "F", " ", "0", "b", "1", "0",
      "1", "0", " ", "1", ".", "5", "e", "-", "3">>

\* "0b12;"
SrcBinTwo ==
    <<"0", "b", "1", "2", ";">>

\* "\ndef empty():\n    pass;\nend;\n"
SrcEmptyFunction ==
    <<"\n", "d", "e", "f", " ", "e", "m", "p", "t", "y", "(", ")", ":", "\n", " ", " ",
      " ", " ", "p", "a", "s", "s", ";", "\n", "e", "n", "d", ";", "\n">>

\* "\ndef flow_test():\n    i = 0;\n    while i < 10:\n        if i == 5:\n            break;\n        end;\n        if i == 3:\n            continue;\n        end;\n        i = i + 1;\n    end;\n    return i;\nend;\n"
SrcFlowControl ==
    <<"\n", "d", "e", "f", " ", "f", "l", "o", "w", "_", "t", "e", "s", "t", "(", ")", ":",
      "\n", " ", " ", " ", " ", "i", " ", "=", " ", "0", ";", "\n", " ", " ", " ", " ",
      "w", "h", "i", "l", "e", " ", "i", " ", "<", " ", "1", "0", ":", "\n", " ", " ", " ",
      " ", " ", " ", " ", " ", "i", "f", " ", "i", " ", "=", "=", " ", "5", ":", "\n", " ",
      " ", " ", " ", " ", " ", " ", " ", " ", " ", " ", " ", "b", "r", "e", "a", "k", ";",
      "\n", " ", " ", " ", " ", " ", " ", " ", " ", "e", "n", "d", ";", "\n", " ", " ",
      " ", " ", " ", " ", " ", " ", "i", "f", " ", "i", " ", "=", "=", " ", "3", ":", "\n",
      " ", " ", " ", " ", " ", " ", " ", " ", " ", " ", " ", " ", "c", "o", "n", "t", "i",
      "n", "u", "e", ";", "\n", " ", " ", " ", " ", " ", " ", " ", " ", "e", "n", "d", ";",
      "\n", " ", " ", " ", " ", " ", " ", " ", " ", "i", " ", "=", " ", "i", " ", "+", " ",
      "1", ";", "\n", " ", " ", " ", " ", "e", "n", "d", ";", "\n", " ", " ", " ", " ",
      "r", "e", "t", "u", "r", "n", " ", "i", ";", "\n", "e", "n", "d", ";", "\n">>

\* "def empty(): pass; end;"
SrcPassOneLine ==
    <<"d", "e", "f", " ", "e", "m", "p", "t", "y", "(", ")", ":", " ", "p", "a", "s", "s",
      ";", " ", "e", "n", "d", ";">>

ScenarioSources ==
    {SrcDefAdd, SrcDefAddOneLine, SrcIfElse, SrcIfElseOneLine,
     SrcWhileOpen, SrcForOpen, SrcWhileNewline, SrcNested,
     SrcNestedNewline, SrcAilang, SrcAsm, SrcAilangNested,
     SrcAsmNested, SrcHexAtEnd, SrcHexThenSemi, SrcBinAtEnd,
     SrcComment, SrcCall, SrcWhileOneLine, SrcForOneLine,
     SrcIfOneLine, SrcElif, SrcAilangOpen, SrcAsmOpen,
     SrcFuncNoName, SrcEndNoSemi, SrcNoColon, SrcElseNoColon,
     SrcForNoVar, SrcForNoIn, SrcAilangNoBrace, SrcAsmNoBrace,
     SrcReturnBare, SrcBadExpr,
     SrcPrecMul, SrcPrecParen, SrcPrecLeft, SrcPrecBool,
     SrcChain, SrcIfChain, SrcWhileChain, SrcAndChain,
     SrcLenCond, SrcUnmapped, SrcStrOpen, SrcFStrOpen,
     SrcNoSemis, SrcSemis, SrcNoSemiReturn, SrcSemiReturn,
     SrcElifLines,
     SrcWhileAsmOpen,
     SrcComplexExpr,
     SrcReturnNeg,
     SrcAssignNegFloat,
     SrcNumbers,
     SrcBinTwo,
     SrcEmptyFunction,
     SrcFlowControl,
     SrcPassOneLine}

\* The characters of the generated sources.
SrcAlphabet == {"0", "1", "x", "e", ".", "-", "\"", "f", "\n", " ", "@"}

\* All sequences over S of length at most n.
RECURSIVE SeqsUpTo(_, _)
SeqsUpTo(S, n) ==
    IF n = 0 THEN {<<>>}
    ELSE LET shorter == SeqsUpTo(S, n - 1) IN
         shorter \cup {Append(s, c) : s \in shorter, c \in S}

Sources == ScenarioSources \cup SeqsUpTo(SrcAlphabet, MaxSrcLen)

----------------------------------------------------------------------------
\* The specification

\* What the output file may be before the call: absent, or there with a
\* content of its own.
NoFile == [exists |-> FALSE, content |-> ""]
OldFile == [exists |-> TRUE, content |-> "previous"]

\* convert_source is not running.
NoConv ==
    [lines |-> <<>>, i |-> 0, result |-> <<>>, block_stack |-> <<>>,
     converted |-> ""]

\* The Python sources convert_source is called on: the inputs of run_tests
\* and every source of at most MaxPyLines lines, each a blank line, a
\* comment or one of the line texts below indented by at most MaxPyIndent
\* spaces.
\* PyTest1:
\* def add(x, y):
\*     return x + y
PyTest1 ==
    <<"d", "e", "f", " ", "a", "d", "d", "(", "x", ",", " ", "y", ")", ":",
      "\n", " ", " ", " ", " ", "r", "e", "t", "u", "r", "n", " ", "x", " ",
      "+", " ", "y">>

\* PyTest2:
\* def process(data):
\*     if len(data) > 0:
\*         for item in data:
\*             print(item)
\*     else:
\*         print("Empty")
PyTest2 ==
    <<"d", "e", "f", " ", "p", "r", "o", "c", "e", "s", "s", "(", "d", "a",
      "t", "a", ")", ":", "\n", " ", " ", " ", " ", "i", "f", " ", "l", "e",
      "n", "(", "d", "a", "t", "a", ")", " ", ">", " ", "0", ":", "\n", " ",
      " ", " ", " ", " ", " ", " ", " ", "f", "o", "r", " ", "i", "t", "e",
      "m", " ", "i", "n", " ", "d", "a", "t", "a", ":", "\n", " ", " ", " ",
      " ", " ", " ", " ", " ", " ", " ", " ", " ", "p", "r", "i", "n", "t",
      "(", "i", "t", "e", "m", ")", "\n", " ", " ", " ", " ", "e", "l", "s",
      "e", ":", "\n", " ", " ", " ", " ", " ", " ", " ", " ", "p", "r", "i",
      "n", "t", "(", "\"", "E", "m", "p", "t", "y", "\"", ")">>

\* PyTest3:
\* class MyClass:
\*     def __init__(self, value):
\*         self.value = value
\* 
\*     def get_value(self):
\*         return self.value
PyTest3 ==
    <<"c", "l", "a", "s", "s", " ", "M", "y", "C", "l", "a", "s", "s", ":",
      "\n", " ", " ", " ", " ", "d", "e", "f", " ", "_", "_", "i", "n", "i",
      "t", "_", "_", "(", "s", "e", "l", "f", ",", " ", "v", "a", "l", "u",
      "e", ")", ":", "\n", " ", " ", " ", " ", " ", " ", " ", " ", "s", "e",
      "l", "f", ".", "v", "a", "l", "u", "e", " ", "=", " ", "v", "a", "l",
      "u", "e", "\n", " ", " ", " ", " ", "\n", " ", " ", " ", " ", "d",
      "e", "f", " ", "g", "e", "t", "_", "v", "a", "l", "u", "e", "(", "s",
      "e", "l", "f", ")", ":", "\n", " ", " ", " ", " ", " ", " ", " ", " ",
      "r", "e", "t", "u", "r", "n", " ", "s", "e", "l", "f", ".", "v", "a",
      "l", "u", "e">>

\* PyTest4:
\* def find(items, target):
\*     i = 0
\*     while i < len(items):
\*         if items[i] == target:
\*             return i
\*         i += 1
\*     return -1
PyTest4 ==
    <<"d", "e", "f", " ", "f", "i", "n", "d", "(", "i", "t", "e", "m", "s",
      ",", " ", "t", "a", "r", "g", "e", "t", ")", ":", "\n", " ", " ", " ",
      " ", "i", " ", "=", " ", "0", "\n", " ", " ", " ", " ", "w", "h", "i",
      "l", "e", " ", "i", " ", "<", " ", "l", "e", "n", "(", "i", "t", "e",
      "m", "s", ")", ":", "\n", " ", " ", " ", " ", " ", " ", " ", " ", "i",
      "f", " ", "i", "t", "e", "m", "s", "[", "i", "]", " ", "=", "=", " ",
      "t", "a", "r", "g", "e", "t", ":", "\n", " ", " ", " ", " ", " ", " ",
      " ", " ", " ", " ", " ", " ", "r", "e", "t", "u", "r", "n", " ", "i",
      "\n", " ", " ", " ", " ", " ", " ", " ", " ", "i", " ", "+", "=", " ",
      "1", "\n", " ", " ", " ", " ", "r", "e", "t", "u", "r", "n", " ", "-",
      "1">>

PyScenarioSources == {PyTest1, PyTest2, PyTest3, PyTest4}

PyLineTexts ==
    {<<"i", "f", " ", "a", ":">>, <<"e", "l", "s", "e", ":">>, <<"x">>}

PyLines ==
    {[k \in 1..n |-> " "] \o text : n \in 0..MaxPyIndent, text \in PyLineTexts}
        \cup {<<>>, <<" ", "#">>}

RECURSIVE JoinLines(_)
JoinLines(ls) ==
    IF ls = <<>> THEN <<>>
    ELSE IF Len(ls) = 1 THEN ls[1]
    ELSE ls[1] \o <<"\n">> \o JoinLines(Tail(ls))

PySources ==
    PyScenarioSources
        \cup {JoinLines(ls) : ls \in SeqsUpTo(PyLines, MaxPyLines)}

\* The graphs _topological_sort is called on, as _analyze_dependencies
\* builds them: every file is a key, in the order the files were found, and
\* depends on any of the files, itself included, with at most MaxDeps
\* dependencies in all.  The files are numbered in the order of the keys.
FileSets == {1..n : n \in 1..MaxFiles}

Graphs ==
    UNION {{[keys |-> [i \in files |-> i],
             deps |-> [f \in files |-> {e[2] : e \in {d \in edges : d[1] = f}}]] :
               edges \in {es \in SUBSET (files \X files) :
                              Cardinality(es) <= MaxDeps}} :
           files \in FileSets}

\* The lists the loop of convert_project runs over: files, each once.
SortedLists == {[i \in files |-> i] : files \in FileSets \cup {{}}}

Init ==
    /\ lexer = [pos |-> 0, line |-> 1, column |-> 1, tokens |-> <<>>]
    /\ local = NoLocal
    /\ parser = [tokens |-> <<>>, pos |-> 0, output |-> <<>>]
    /\ stack = <<>>
    /\ error = NoError
    /\ ailang_code = ""
    /\ final_code = ""
    /\ conv = NoConv
    /\ \/ /\ pc = "tokenize"
          /\ source \in Sources
          /\ output_file \in BOOLEAN
          /\ file \in {NoFile, OldFile}
          /\ py_source = <<>>
          /\ graph = NoGraph
          /\ project = NoProject
       \/ /\ pc = "convert"
          /\ py_source \in PySources
          /\ source = <<>>
          /\ output_file = FALSE
          /\ file = NoFile
          /\ graph = NoGraph
          /\ project = NoProject
       \/ /\ pc = "topological_sort"
          /\ graph \in Graphs
          /\ project = NoProject
          /\ source = <<>>
          /\ py_source = <<>>
          /\ output_file = FALSE
          /\ file = NoFile
       \/ /\ pc = "convert_files"
          /\ graph = NoGraph
          /\ \E sorted_files \in SortedLists :
                 project = [NoProject EXCEPT !.sorted_files = sorted_files]
          /\ source = <<>>
          /\ py_source = <<>>
          /\ output_file = FALSE
          /\ file = NoFile

Next ==
    \/ LexNext
    \/ ParNext
    \/ CompileAimacro
    \/ ConvNext
    \/ BatchNext

Spec == Init /\ [][Next]_vars

\* The interpreter runs the call until it returns or raises.
FairSpec == Spec /\ WF_vars(Next)

----------------------------------------------------------------------------
\* Properties

\* s is an initial part of t.
IsPrefix(s, t) == Len(s) <= Len(t) /\ SubSeq(t, 1, Len(s)) = s

\* How many entries of the list s are x.
Count(s, x) == Cardinality({i \in DOMAIN s : s[i] = x})

\* C1: once tokenize has returned its token list, parse terminates: it
\* returns its text or raises a parser error.
C1_ParseTerminates == (pc = "tokenized") ~> (pc \in {"parsed", "raised"})

\* C2: the END that follows the body of a block is consumed by the block's
\* own method: the bare-terminator branch of _parse_statement never runs
\* inside the body loop of an open block.
C2_EndConsumedByOwner == [][ParseEndMarker => stack = <<>>]_vars

\* The lines of the block claimed for `def add(x, y):\n    return x + y;\nend;\n`,
\* before its two closing markers.
DefAddLines ==
    <<"Function.add {", "    Input: x: Integer", "    Input: y: Integer",
      "    Body: {", "        ReturnValue(Add(x, y))">>

\* C3: parsing `def add(x, y):\n    return x + y;\nend;\n` builds the block
\* Function.add with inputs x and y whose body is exactly the one statement
\* ReturnValue(Add(x, y)): the function's list never holds any other line,
\* and what parse returns is that block with its two closing markers.
C3_FunctionBlock ==
    source = SrcDefAdd =>
        /\ \A i \in DOMAIN stack :
              stack[i].kind = "function" => IsPrefix(stack[i].result, DefAddLines)
        /\ pc \in {"parsed", "done"} =>
              ailang_code = Join(DefAddLines \o <<"    }", "}">>, "\n")

\* The lines claimed for `if x > 0:\n    return 1;\nelse:\n    return -1;\nend;\n`
\* up to the start of its else branch.
IfElseLines ==
    <<"IfCondition GreaterThan(x, 0) ThenBlock {", "    ReturnValue(1)",
      "} ElseBlock {">>

\* C4: in an if statement `else` starts the else branch and is never skipped
\* as an unknown token by the then loop; for
\* `if x > 0:\n    return 1;\nelse:\n    return -1;\nend;\n` the then branch
\* holds only ReturnValue(1) under the condition GreaterThan(x, 0), and the
\* statements after `else:` come after the line `} ElseBlock {`.
C4_ElseBranch ==
    /\ ~(pc = "statement" /\ stack # <<>> /\ Top.kind = "if"
            /\ StmtType = "ELSE")
    /\ source = SrcIfElse =>
          \A i \in DOMAIN stack :
              /\ stack[i].kind = "if" =>
                    IsPrefix(stack[i].result, SubSeq(IfElseLines, 1, 2))
              /\ stack[i].kind = "else" => IsPrefix(IfElseLines, stack[i].result)

\* C5: the closing markers of the output are those of the opened blocks: no
\* stray `}` line is put into the body of a block.
C5_NoStrayCloser ==
    \A i \in DOMAIN stack :
        stack[i].kind \in BlockKinds =>
            \A j \in DOMAIN stack[i].result :
                stack[i].result[j] # Indent(stack[i].kind) \o "}"

\* C6: when the end of the input is reached in the body of a block that is
\* still open, parse raises a parser error.
C6_UnclosedBlockRaises ==
    (pc = "loop" /\ stack # <<>> /\ Top.kind \in BlockKinds
        /\ TypeAt(parser.pos) = "EOF")
        ~> (pc = "raised" /\ error.kind = "parser")

\* C7: tokenize terminates: it returns the token list or raises a lexer
\* error.
C7_TokenizeTerminates == (pc = "tokenize") ~> (pc \in {"tokenized", "raised"})

\* C8: `ailang { buffer = Allocate(1024) };` emits exactly the enclosed text
\* `buffer = Allocate(1024)`.
C8_AilangVerbatim ==
    (source = SrcAilang /\ pc \in {"parsed", "done"}) =>
        ailang_code = "buffer = Allocate(1024)"

\* C9: `asm { MOV RAX, 60 };` emits an InlineAssembly block whose one line
\* is the source line, its tokens joined by single spaces.
C9_AsmLines ==
    (source = SrcAsm /\ pc \in {"parsed", "done"}) =>
        ailang_code = "InlineAssembly {\n    MOV RAX, 60\n}"

\* C10: in an escape block the captured text holds the nested braces and
\* only them: at every moment it has one `{` more than `}` for each nested
\* brace still open (depth - 1), so K `{` and K `}` when the block closes,
\* and the block is open exactly while the depth is above 0.
C10_BraceBalance ==
    \A i \in DOMAIN stack :
        stack[i].kind \in EscapeKinds =>
            /\ stack[i].depth > 0
            /\ Count(stack[i].result, "{") - Count(stack[i].result, "}")
                  = stack[i].depth - 1

\* C11: an escape block whose brace depth has not returned to zero when the
\* EOF token is read raises the parser error "Unterminated ailang block" or
\* "Unterminated asm block" at that step: the loop of the block never has
\* the cursor past the EOF token, and the step it takes on the EOF token
\* raises, so no text is returned for such an input.
C11_UnterminatedEscapeRaises ==
    /\ [](pc = "escape" => parser.pos < Len(parser.tokens))
    /\ [][(pc = "escape" /\ TypeAt(parser.pos) = "EOF") =>
            /\ pc' = "raised"
            /\ error'.kind = "parser"
            /\ error'.msg = "Unterminated " \o Top.kind \o " block"
            /\ ailang_code' = ""]_vars

\* An unterminated asm block nested in an open while block has raised.
C11_Witness ==
    /\ pc = "raised"
    /\ error.msg = "Unterminated asm block"
    /\ Len(stack) = 2
    /\ parser.pos = Len(parser.tokens)

\* The binary operators that every level of _parse_expression consumes as
\* long as they follow (the comparison operators are consumed once only).
LoopOperators ==
    {"OR", "AND", "PLUS", "MINUS", "MULTIPLY", "DIVIDE", "MODULO"}

\* C12: expressions are emitted by precedence, low to high or, and,
\* comparison, additive, multiplicative, unary, primary, each level
\* left-associative: `a + b * c` emits Add(a, Multiply(b, c)), `(a + b) * c`
\* emits Multiply with the parenthesized Add as its first argument,
\* `a - b - c` emits Subtract(Subtract(a, b), c), and
\* `x > 5 and y < 10 or z == 0` emits
\* Or(And(GreaterThan(x, 5), LessThan(y, 10)), EqualTo(z, 0)); and an
\* expression parsed from any token never stops in front of an operator of
\* a looping level.
C12_Precedence ==
    /\ source \in {SrcPrecMul, SrcPrecParen, SrcPrecLeft, SrcPrecBool} =>
          /\ pc # "raised"
          /\ pc \in {"parsed", "done"} =>
                ailang_code =
                    CASE source = SrcPrecMul -> "r = Add(a, Multiply(b, c))"
                      [] source = SrcPrecParen -> "r = Multiply((Add(a, b)), c)"
                      [] source = SrcPrecLeft -> "r = Subtract(Subtract(a, b), c)"
                      [] source = SrcPrecBool ->
                           "r = Or(And(GreaterThan(x, 5), LessThan(y, 10)), EqualTo(z, 0))"
    /\ pc = "statement" =>
          \A p \in 0 .. Len(parser.tokens) - 1 :
              ParseExpression(p).ok =>
                  TypeAt(ParseExpression(p).pos) \notin LoopOperators

\* `x > 5 and y < 10 or z == 0` has been parsed and emitted.
C12_Witness ==
    /\ source = SrcPrecBool
    /\ pc = "parsed"
    /\ ailang_code # ""

ArgLists ==
    {<<>>, <<"x">>, <<"Add(a, 1)", "ArrayLength(b)">>, <<"a", "", "c">>}

\* Names no table entry has.
UnmappedNames == {"foo", "Print", "length", ""}

\* The reference: the table's name for a table entry, the name itself
\* otherwise, then the arguments in order between parentheses.
RECURSIVE CommaSeparated(_)
CommaSeparated(list) ==
    IF list = <<>> THEN ""
    ELSE IF Len(list) = 1 THEN list[1]
    ELSE CommaSeparated(SubSeq(list, 1, Len(list) - 1)) \o ", "
             \o list[Len(list)]

\* The six table entries the specification names.
NamedEntries ==
    [n \in {"print", "len", "range", "sum", "min", "max"} |->
        CASE n = "print" -> "PrintMessage"
          [] n = "len" -> "ArrayLength"
          [] n = "range" -> "AIMacro.range"
          [] n = "sum" -> "AIMacro.sum"
          [] n = "min" -> "AIMacro.min"
          [] n = "max" -> "AIMacro.max"]

\* C14: map_function(name, args) is T[name](a1, a2, ...) for the 22 names
\* of the table and name(a1, a2, ...) for every other name, the argument
\* texts unchanged, in order, joined by ", "; a mapped call used as an
\* operand keeps that rendering: `len(array) > 0` emits
\* GreaterThan(ArrayLength(array), 0).  The names tried are the table's, a
\* few others, and every token value of the list tokenize returned.
C14_MapFunction ==
    /\ pc = "tokenized" =>
          /\ Cardinality(DOMAIN mappings) = 22
          /\ \A n \in DOMAIN NamedEntries :
                n \in DOMAIN mappings /\ mappings[n] = NamedEntries[n]
          /\ \A a \in ArgLists :
                /\ \A n \in DOMAIN mappings :
                      map_function(n, a) =
                          mappings[n] \o "(" \o CommaSeparated(a) \o ")"
                /\ \A n \in DOMAIN NamedEntries :
                      map_function(n, a) =
                          NamedEntries[n] \o "(" \o CommaSeparated(a) \o ")"
                /\ \A n \in (UnmappedNames \cup
                              {lexer.tokens[i].value : i \in DOMAIN lexer.tokens})
                             \ DOMAIN mappings :
                      map_function(n, a) =
                          n \o "(" \o CommaSeparated(a) \o ")"
    /\ (source = SrcLenCond /\ pc \in {"parsed", "done"}) =>
          ailang_code = "r = GreaterThan(ArrayLength(array), 0)"
    /\ (source = SrcUnmapped /\ pc \in {"parsed", "done"}) =>
          ailang_code = "r = foo(Add(a, 1), ArrayLength(b))"
    /\ source \in {SrcLenCond, SrcUnmapped} => pc # "raised"

\* `r = len(array) > 0;` has been parsed: the mapped call is an operand.
C14_Witness ==
    /\ source = SrcLenCond
    /\ pc = "parsed"
    /\ parser.output = <<"r = GreaterThan(ArrayLength(array), 0)">>

\* The line and the column of the character at offset q of the source
\* (offsets from 0), as _advance counts them.
LineOf(q) ==
    1 + Cardinality({k \in 1 .. q : source[k] = "\n"})
ColumnOf(q) ==
    1 + Cardinality({k \in 1 .. q : \A j \in k .. q : source[j] # "\n"})

\* The offsets where a string literal with the quote and the prefix of the
\* running _tokenize_string may have begun.
OpeningOffsets ==
    {q \in 0 .. Len(source) - 1 :
        /\ ColumnOf(q) = local.start_col
        /\ IF local.is_fstring
           THEN source[q + 1] = "f" /\ CharAt(q + 1) = local.quote
           ELSE source[q + 1] = local.quote}

\* C15: the lexer error for a string literal without its closing quote
\* reports the line and the column where the literal began.
C15_UnterminatedStringPosition ==
    (pc = "raised" /\ error.kind = "lexer" /\ error.msg = "Unterminated string")
        => /\ error.column = local.start_col
           /\ \E q \in OpeningOffsets : error.line = LineOf(q)

\* C16: when lexing and parsing succeed, compile_aimacro returns the fixed
\* header `// Generated from AIMacro source\nLibraryImport Library.AIMacro\n\n`
\* followed by the text parse returned, unchanged: the step after parse
\* returns it, and the text parse returned is the parser's output lines
\* joined by newlines.
C16_HeaderThenOutput ==
    /\ [](pc = "done" =>
            /\ final_code =
                  "// Generated from AIMacro source\nLibraryImport Library.AIMacro\n\n"
                      \o ailang_code
            /\ ailang_code = Join(parser.output, "\n")
            /\ error = NoError)
    /\ [][pc = "parsed" =>
            /\ pc' = "done"
            /\ ailang_code' = ailang_code
            /\ parser' = parser]_vars

\* compile_aimacro has returned for `def add(x, y): return x + y; end;`.
C16_Witness ==
    /\ pc = "done"
    /\ source = SrcDefAddOneLine
    /\ Len(parser.output) = 1
    /\ ailang_code # ""

\* C17: the output file is written only by the step of compile_aimacro that
\* follows a successful tokenize and parse, only when an output file was
\* asked for, and with the text the call returns; until then, and for good
\* when the lexer or the parser raises, the file is as it was before the
\* call: absent if it was absent, its content unchanged otherwise.
C17_FileOnlyAfterSuccess ==
    /\ [][file' # file =>
            /\ pc = "parsed" /\ pc' = "done"
            /\ output_file
            /\ error = NoError /\ error' = NoError
            /\ file' = [exists |-> TRUE, content |-> final_code']]_vars
    /\ [](pc = "raised" => (file \in {NoFile, OldFile} /\ final_code = ""))
    /\ []((pc = "done" /\ ~output_file) => file \in {NoFile, OldFile})

\* The parser has raised in a call that names an output file which did not
\* exist: it still does not.
C17_Witness ==
    /\ pc = "raised"
    /\ error.kind = "parser"
    /\ output_file
    /\ file = NoFile
    /\ parser.output # <<>>

\* C18: the `;` after an assignment, a return or a call is optional: a
\* program whose statements are separated by NEWLINE tokens only is parsed
\* like the same program with `;` after each statement, and emits the same
\* statement texts.
C18_SemicolonOptional ==
    /\ source \in {SrcNoSemis, SrcSemis} =>
          /\ pc # "raised"
          /\ pc \in {"parsed", "done"} =>
                parser.output = <<"result = Add(x, y)", "ReturnValue(result)",
                                  "PrintMessage(result)">>
    /\ source \in {SrcNoSemiReturn, SrcSemiReturn} =>
          /\ pc # "raised"
          /\ pc \in {"parsed", "done"} =>
                parser.output = <<"x = 1", "ReturnValue(0)">>

\* C19: in an if statement whose clauses stand on separate lines, `elif`
\* ends the scan of the then branch: _parse_statement is never called on
\* the `elif` token inside the then loop, and for
\* `if x > 0:\n    return 1;\nelif x < 0:\n    return 2;\nelse:\n    return 3;\nend;\n`
\* the then branch holds ReturnValue(1) only, under the line
\* `IfCondition GreaterThan(x, 0) ThenBlock {`.
C19_ElifEndsThen ==
    /\ ~(pc = "statement" /\ stack # <<>> /\ Top.kind = "if"
            /\ StmtType = "ELIF")
    /\ source = SrcElifLines =>
          \A i \in DOMAIN stack :
              stack[i].kind = "if" =>
                  IsPrefix(stack[i].result,
                           <<"IfCondition GreaterThan(x, 0) ThenBlock {",
                             "    ReturnValue(1)">>)

----------------------------------------------------------------------------
\* The blocks that end at a line of indentation `indent`: those opened at
\* that indentation or deeper, innermost first, each with its `end;`.
RECURSIVE BlocksEnded(_, _, _)
BlocksEnded(block_stack, result, indent) ==
    IF block_stack # <<>> /\ indent <= block_stack[Len(block_stack)].indent
    THEN BlocksEnded(SubSeq(block_stack, 1, Len(block_stack) - 1),
                     Append(result,
                            Spaces(block_stack[Len(block_stack)].indent)
                                \o "end;"),
                     indent)
    ELSE [block_stack |-> block_stack, result |-> result]

\* The lines of the output when every block is closed immediately before
\* the first later non-blank, non-comment line indented no deeper than its
\* opener, or at the end of the input.
RECURSIVE ClosedWhereEnded(_, _, _, _)
ClosedWhereEnded(lines, i, block_stack, result) ==
    IF i > Len(lines) THEN CloseRemaining(block_stack, result)
    ELSE LET line == lines[i]
             stripped == Lstrip(line)
             indent == Len(line) - Len(stripped)
             ended == BlocksEnded(block_stack, result, indent)
         IN  IF stripped = <<>> \/ Head(stripped) = "#"
             THEN ClosedWhereEnded(lines, i + 1, block_stack,
                                   Append(result, Text(line)))
             ELSE IF get_block_type(stripped) # ""
             THEN ClosedWhereEnded(
                      lines, i + 1,
                      Append(ended.block_stack,
                             [type |-> get_block_type(stripped),
                              indent |-> indent]),
                      Append(ended.result, process_block_start(line)))
             ELSE ClosedWhereEnded(
                      lines, i + 1, ended.block_stack,
                      Append(ended.result, process_statement(line, stripped)))

\* The lines of the output that are not blank.
NonBlank(result) ==
    LET blank == {Text(conv.lines[k]) :
                     k \in {n \in 1..Len(conv.lines) :
                               Lstrip(conv.lines[n]) = <<>>}}
        IsNotBlank(text) == text \notin blank
    IN  SelectSeq(result, IsNotBlank)

\* The outputs run_tests expects for its tests 1, 3 and 4, without the
\* blank lines its comparison drops.
Expected1 ==
    <<"def add(x, y):",
      "    return x + y;",
      "end;">>

Expected3 ==
    <<"class MyClass:",
      "    def __init__(self, value):",
      "        self.value = value;",
      "    end;",
      "    def get_value(self):",
      "        return self.value;",
      "    end;",
      "end;">>

Expected4 ==
    <<"def find(items, target):",
      "    i = 0;",
      "    while i < len(items):",
      "        if items[i] == target:",
      "            return i;",
      "        end;",
      "        i += 1;",
      "    end;",
      "    return -1;",
      "end;">>

\* C20: convert_source closes every block where the block ends: the `end;`
\* of a block opened at indentation d comes immediately before the first
\* later non-blank, non-comment line whose indentation is at most d, or at
\* the end of the input when there is none; so the outputs for the inputs
\* of tests 1, 3 and 4 of run_tests are the ones the tests expect.
C20_BlocksClosedWhereTheyEnd ==
    pc = "converted" =>
        /\ conv.result = ClosedWhereEnded(conv.lines, 1, <<>>, <<>>)
        /\ py_source = PyTest1 => NonBlank(conv.result) = Expected1
        /\ py_source = PyTest3 => NonBlank(conv.result) = Expected3
        /\ py_source = PyTest4 => NonBlank(conv.result) = Expected4

----------------------------------------------------------------------------
\* Indentation and block type of a line; a line that is blank or a comment
\* is not a code line.
IndentOf(line) == Len(line) - Len(Lstrip(line))
IsCodeLine(line) == Lstrip(line) # <<>> /\ Head(Lstrip(line)) # "#"
BlockTypeOf(line) == IF IsCodeLine(line) THEN get_block_type(Lstrip(line)) ELSE ""

\* The `if` an `else` line belongs to: the nearest earlier code line at the
\* same indentation, when it opens an if or elif and every code line in
\* between is indented deeper.
PairedWith(lines, j, k) ==
    /\ k < j
    /\ BlockTypeOf(lines[k]) \in {"if", "elif"}
    /\ IndentOf(lines[k]) = IndentOf(lines[j])
    /\ \A m \in (k + 1)..(j - 1) :
           IsCodeLine(lines[m]) => IndentOf(lines[m]) > IndentOf(lines[j])

ElseLines(lines) == {j \in 1..Len(lines) : BlockTypeOf(lines[j]) = "else"}

\* Every else of the input has its if.
ElsePaired(lines) ==
    \A j \in ElseLines(lines) : \E k \in 1..Len(lines) : PairedWith(lines, j, k)

\* The `end;` lines of an output.
EndLines(lines, result) ==
    {k \in 1..Len(result) :
        \E n \in 1..Len(lines) : result[k] = Spaces(IndentOf(lines[n])) \o "end;"}

\* The output run_tests expects for its test 2.
Expected2 ==
    <<"def process(data):",
      "    if len(data) > 0:",
      "        for item in data:",
      "            print(item);",
      "        end;",
      "    else:",
      "        print(\"Empty\");",
      "    end;",
      "end;">>

\* C21: convert_source emits exactly one `end;` for an if ... else pair,
\* after the else body, and none between the then body and `else:`: an
\* input whose every else has its if gets one `end;` per block opener that
\* is not an else, no `end;` of the if's indentation stands directly before
\* its `else:`, and the output for test 2 of run_tests is the expected one
\* with its three `end;` lines.
C21_OneEndPerIfElse ==
    pc = "converted" /\ ElsePaired(conv.lines) =>
        /\ Cardinality(EndLines(conv.lines, conv.result)) =
               Cardinality({n \in 1..Len(conv.lines) :
                               BlockTypeOf(conv.lines[n]) \notin {"", "else"}})
        /\ \A j \in ElseLines(conv.lines) : \A k \in 1..(Len(conv.result) - 1) :
               ~(/\ conv.result[k] = Spaces(IndentOf(conv.lines[j])) \o "end;"
                 /\ conv.result[k + 1] = Text(conv.lines[j]))
        /\ py_source = PyTest2 =>
               /\ conv.result = Expected2
               /\ Cardinality(EndLines(conv.lines, conv.result)) = 3

----------------------------------------------------------------------------
\* The files reachable from the files of S along the dependencies, S
\* included.
RECURSIVE Reachable(_)
Reachable(S) ==
    LET more == S \cup UNION {GraphGet(f) : f \in S}
    IN  IF more = S THEN S ELSE Reachable(more)

\* No file depends on itself, directly or through other files.
Acyclic == \A f \in DOMAIN graph.deps : f \notin Reachable(GraphGet(f))

\* Where a file stands in a list.
IndexIn(list, f) == CHOOSE i \in 1..Len(list) : list[i] = f

\* C22: for every acyclic dependency graph _topological_sort returns each
\* file of the graph exactly once, and every dependency of a file before
\* the file.
C22_DependencyOrder ==
    pc = "sorted" /\ Acyclic =>
        /\ Len(project.sorted_files) = Len(graph.keys)
        /\ \A f \in DOMAIN graph.deps :
               Cardinality({i \in 1..Len(project.sorted_files) :
                               project.sorted_files[i] = f}) = 1
        /\ \A f \in DOMAIN graph.deps : \A dep \in GraphGet(f) :
               IndexIn(project.sorted_files, dep)
                   < IndexIn(project.sorted_files, f)

\* A chain of dependencies against the order of the keys has been sorted.
C22_Witness ==
    /\ pc = "sorted"
    /\ Acyclic
    /\ Len(graph.keys) = MaxFiles
    /\ \A f \in 1..(MaxFiles - 1) : GraphGet(f) = {f + 1}
    /\ project.sorted_files = [i \in 1..MaxFiles |-> MaxFiles + 1 - i]

\* The files recorded in failed_conversions.
FailedFiles ==
    {project.failed_conversions[j].file :
        j \in 1..Len(project.failed_conversions)}

C24_TokenPositionsMonotonic ==
    pc = "tokenized" =>
        /\ \A i \in 1 .. Len(lexer.tokens) - 1 :
               \/ lexer.tokens[i].line < lexer.tokens[i + 1].line
               \/ /\ lexer.tokens[i].line = lexer.tokens[i + 1].line
                  /\ lexer.tokens[i].column < lexer.tokens[i + 1].column
        /\ \A i \in 1 .. Len(lexer.tokens) :
               lexer.tokens[i].type # "EOF" =>
                   \E q \in 0 .. Len(source) - 1 :
                       /\ LineOf(q) = lexer.tokens[i].line
                       /\ ColumnOf(q) = lexer.tokens[i].column
                       /\ source[q + 1] \notin {" ", "\t"}

\* C25: every parser error carries the line and the column of the offending
\* token, a token of the input sequence: the token under the cursor when
\* the error was raised, which for an unterminated ailang or asm block is
\* the EOF token; the position is never that of the token _current makes up
\* past the end (line 0, column 0).
C25_ErrorAtInputToken ==
    (pc = "raised" /\ error.kind = "parser") =>
        /\ parser.pos < Len(parser.tokens)
        /\ error.line = parser.tokens[parser.pos + 1].line
        /\ error.column = parser.tokens[parser.pos + 1].column
        /\ ~(error.line = 0 /\ error.column = 0)
        /\ error.msg \in {"Unterminated ailang block", "Unterminated asm block"}
               => parser.tokens[parser.pos + 1].type = "EOF"

\* C26: a parenthesized sub-expression used as an operand is rendered as
\* the bare nested call of its inner expression, with no parentheses added
\* to the emitted text: `result = (a + b) * (c - d) / 2` emits
\* Multiply(Add(a, b), Subtract(c, d)) as the first argument of the Divide.
C26_ParenthesesNotEmitted ==
    /\ (source = SrcComplexExpr /\ pc \in {"parsed", "done"}) =>
           ailang_code =
               "result = Divide(Multiply(Add(a, b), Subtract(c, d)), 2)"
    /\ pc = "statement" =>
           \A p \in 0 .. Len(parser.tokens) - 1 :
               (/\ TypeAt(p) = "LPAREN"
                /\ TypeAt(ParAdvance(p)) # "RPAREN"
                /\ ParsePrimary(p).ok)
                   => ParsePrimary(p).text
                          = ParseExpression(ParAdvance(p)).text

\* C27: a unary minus applied directly to a numeric literal is emitted as
\* the negative literal text: `return -1;` emits ReturnValue(-1).
C27_NegativeLiteral ==
    /\ (source = SrcReturnNeg /\ pc \in {"parsed", "done"}) =>
           ailang_code = "ReturnValue(-1)"
    /\ pc = "statement" =>
           \A p \in 0 .. Len(parser.tokens) - 1 :
               (TypeAt(p) = "MINUS" /\ TypeAt(ParAdvance(p)) = "NUMBER")
                   => ParseUnary(p).text = "-" \o TokenAt(ParAdvance(p)).value

\* The characters of the source a NUMBER token was made from: as many as
\* its value has, from the token's line and column.
RawTexts(token) ==
    {SubSeq(source, q + 1, q + Len(token.value)) :
        q \in {r \in 0 .. Len(source) - 1 :
                  /\ LineOf(r) = token.line
                  /\ ColumnOf(r) = token.column}}

HexDigits ==
    Digits \cup {"a", "b", "c", "d", "e", "f", "A", "B", "C", "D", "E", "F"}

\* C28: every numeric literal is one NUMBER token whose value is the raw
\* source text of the literal; after 0x or 0X only hexadecimal digits are
\* taken into the token, after 0b or 0B only the binary digits 0 and 1; the
\* source of test_number_literals gives "42", "3.14", "0xFF", "0b1010",
\* "1.5e-3".
C28_NumberLiterals ==
    pc = "tokenized" =>
        /\ \A i \in 1 .. Len(lexer.tokens) :
               lexer.tokens[i].type = "NUMBER" =>
                   \A raw \in RawTexts(lexer.tokens[i]) :
                       /\ Text(raw) = lexer.tokens[i].value
                       /\ (Len(raw) >= 2 /\ raw[1] = "0" /\ raw[2] \in {"x", "X"})
                              => \A k \in 3 .. Len(raw) : raw[k] \in HexDigits
                       /\ (Len(raw) >= 2 /\ raw[1] = "0" /\ raw[2] \in {"b", "B"})
                              => \A k \in 3 .. Len(raw) : raw[k] \in {"0", "1"}
        /\ source = SrcNumbers =>
               [i \in 1 .. Len(lexer.tokens) - 1 |-> lexer.tokens[i].value]
                   = <<"42", "3.14", "0xFF", "0b1010", "1.5e-3">>

\* C29: a token at the start of a statement that no statement form begins
\* with is skipped: _parse_statement consumes exactly that token, emits
\* nothing and raises no error, so the parse is not aborted and the programs
\* of test_empty_function and test_flow_control_keywords, with `pass;`,
\* `break;` and `continue;` in their bodies, are accepted.
C29_SoftRecovery ==
    /\ [][(/\ pc = "statement"
           /\ StmtType \notin {"DEF", "FUNC", "RETURN", "IF", "WHILE", "FOR",
                               "AILANG", "ASM", "IDENTIFIER", "END",
                               "SEMICOLON"})
             => /\ pc' # "raised"
                /\ error' = error
                /\ parser'.pos = ParAdvance(StmtPos)
                /\ parser'.output = parser.output
                /\ Len(stack') = Len(stack)
                /\ \A i \in DOMAIN stack : stack'[i].result = stack[i].result]_vars
    /\ source \in {SrcEmptyFunction, SrcFlowControl, SrcPassOneLine}
           => <>(pc = "done")

\* The lines of an output that are not `end;` lines, in their order.
NotEndLines(lines, result) ==
    LET IsNotEnd(text) ==
            \A n \in 1..Len(lines) : text # Spaces(IndentOf(lines[n])) \o "end;"
    IN  SelectSeq(result, IsNotEnd)

\* The `end;` lines for the blocks of block_stack above its first m, the
\* innermost first.
EndsAbove(block_stack, m) ==
    [j \in 1..(Len(block_stack) - m) |->
        Spaces(block_stack[Len(block_stack) + 1 - j].indent) \o "end;"]

====
